---- MODULE Spec2Model ----
(***************************************************************************)
(* Query cache of gstore-cache: the cache-or-fetch orchestration of       *)
(* queries (get of the earlier revision, wrap of lib/queries.js) and the   *)
(* entity-kind index kept in Redis (cacheQueryEntityKind,                  *)
(* cleanQueriesEntityKind).  Every asynchronous call is a process that     *)
(* advances at its I/O boundaries; the stores are shared.                  *)
(***************************************************************************)
EXTENDS Integers, Sequences, FiniteSets, TLC

\* ------------------------------------------------------------------ bounds
\* number of calls issued in one behaviour of each specification
MaxCalls == 2
MaxGetCalls == 2
MaxIndexCalls == 3
MaxRaceCalls == 2
MaxSetCalls == 2
MaxReadCalls == 2
MaxKindCalls == 2
MaxTTLCalls == 2
MaxKeyCalls == 2

\* ---------------------------------------------------------------- universe
Procs == {"p1", "p2"}
\* the process that issues the calls when they are made one after another
Sequential == {"p1"}
Queries == {"Q1", "Q2"}
Kinds == {"KA", "KB"}
Errors == {"E1", "E2"}

\* query.kinds of the two query specifications
QueryKinds(q) == IF q = "Q1" THEN <<"KA">> ELSE <<"KB", "KA">>

\* dsQueryToString is a collaborator (lib/utils); the prefix is prepended here
queryToString(q) == IF q = "Q1" THEN "gcq:Q1" ELSE "gcq:Q2"
QueryKeys == {queryToString(q) : q \in Queries}

\* name of the Redis set of an entity kind: cachePrefix.queries + kind
SetName(k) == IF k = "KA" THEN "gcq:KA" ELSE "gcq:KB"
SetNames == {SetName(k) : k \in Kinds}
KindOfSet(n) == CHOOSE k \in Kinds : SetName(k) = n

\* a point-key entry that lives in the same Redis database
PointKeys == {"gck:K1"}
\* the cache keys of the point keys given to keys.wrap
WrapKeys == {"gck:K1", "gck:K2"}
RedisKeys == QueryKeys \cup PointKeys \cup WrapKeys

\* ------------------------------------------------------------------ values
\* an entity: KEY is the value of the [ds.KEY] Symbol property, dsKey
\* the value of the "__dsKey__" property; "" stands for an absent property
NoPayload == [entities |-> <<>>, meta |-> ""]
Payloads ==
    { [entities |-> <<[name |-> "a", KEY |-> "k1", dsKey |-> ""]>>, meta |-> "m1"],
      [entities |-> <<[name |-> "b", KEY |-> "", dsKey |-> ""]>>, meta |-> "m2"] }

\* JSON.stringify followed by JSON.parse: Symbol-keyed properties are lost
JSONRoundTrip(v) ==
    [entities |-> [i \in DOMAIN v.entities |-> [v.entities[i] EXCEPT !.KEY = ""]],
     meta |-> v.meta]

\* a slot of a store: present = FALSE is "undefined"; ttl 0 is no expiry
Absent == [present |-> FALSE, val |-> NoPayload, ttl |-> 0]
Entry(v, t) == [present |-> TRUE, val |-> v, ttl |-> t]

\* ------------------------------------------------------------- configuration
\* topology of the stores handed to the constructor
Topologies == {"mem", "redis", "mem+redis"}
StoresOf(topo) ==
    CASE topo = "mem" -> <<"memory">>
      [] topo = "redis" -> <<"redis">>
      [] OTHER -> <<"memory", "redis">>
Configs ==
    [topo : Topologies, global : BOOLEAN, ttlQueries : {-1, 5},
     ttlMemory : {3}, ttlRedis : {0, 4}]

\* per-call options: cache is "unset", "true" or "false"; ttl -2 is unset
NoTTL == -2
Options == [cache : {"unset", "true", "false"}, ttl : {NoTTL}]
\* a TTL given with the call
TTLOptions == [cache : {"unset"}, ttl : {9}]
\* no option given
DefaultOptions == {o \in Options : o.cache = "unset"}

\* a TTL is a plain number or the per-store resolver function
NumTTL(n) == [fn |-> FALSE, n |-> n]
FnTTL == [fn |-> TRUE, n |-> 0]

VARIABLES
    config,     \* cache.config and the store topology, fixed at construction
    memKV,      \* the in-memory store: cache key -> slot
    redisKV,    \* Redis string keys: key -> slot
    redisSets,  \* Redis sets: entity kind -> members of its set
    procs,      \* the calls in flight, one per process
    budget,     \* calls that may still be issued
    registered  \* history: key -> the kinds it was registered under since
                \* its payload was last stored by cacheQueryEntityKind

vars == <<config, memKV, redisKV, redisSets, procs, budget, registered>>

\* cache.redisClient is defined when a redis store is configured
hasRedisClient(c) == c.topo \in {"redis", "mem+redis"}
\* mutant: the stores next to the redis store are not looked for
hasCacheManagerNoRedis_never(c) == FALSE

\* cache.cacheManagerNoRedis: the non-redis stores next to a redis store
hasCacheManagerNoRedis(c) == c.topo = "mem+redis"

\* cache.cacheManager exists once the cache is constructed
hasCacheManager(c) == Len(StoresOf(c.topo)) > 0

\* ------------------------------------------------------------------ helpers
RECURSIVE SetToSeq(_)
SetToSeq(S) ==
    IF S = {} THEN <<>>
    ELSE LET x == CHOOSE y \in S : TRUE IN <<x>> \o SetToSeq(S \ {x})

Range(s) == {s[i] : i \in DOMAIN s}

RECURSIVE Flatten(_)
Flatten(ss) == IF ss = <<>> THEN <<>> ELSE Head(ss) \o Flatten(Tail(ss))

\* Array.from(new Set(list)): first occurrences, in order
RECURSIVE Dedupe(_)
Dedupe(s) ==
    IF s = <<>> THEN <<>>
    ELSE LET r == Dedupe(SubSeq(s, 1, Len(s) - 1))
             x == s[Len(s)]
         IN IF x \in Range(r) THEN r ELSE Append(r, x)

NoDuplicates(s) == \A i, j \in DOMAIN s : s[i] = s[j] => i = j

\* -------------------------------------------------------------- call records
NoResult == [kind |-> "none", val |-> NoPayload, vals |-> <<>>, n |-> 0, err |-> ""]
Value(v) == [kind |-> "value", val |-> v, vals |-> <<>>, n |-> 0, err |-> ""]
\* an array of payloads
Values(vs) == [kind |-> "values", val |-> NoPayload, vals |-> vs, n |-> 0, err |-> ""]
\* undefined
Undefined == [kind |-> "undefined", val |-> NoPayload, vals |-> <<>>, n |-> 0, err |-> ""]
Count(n) == [kind |-> "count", val |-> NoPayload, vals |-> <<>>, n |-> n, err |-> ""]
Ack == [kind |-> "ack", val |-> NoPayload, vals |-> <<>>, n |-> 0, err |-> ""]
Failure(e) == [kind |-> "error", val |-> NoPayload, vals |-> <<>>, n |-> 0, err |-> e]

NoCmd == [sadd |-> <<>>, op |-> "none", key |-> "", val |-> NoPayload, ttl |-> 0]

\* what a caller knows of the call it made just before the present one
NoPrev ==
    [query |-> "", read |-> "none", fetches |-> 0, status |-> "none",
     data |-> NoPayload]

Idle ==
    [op |-> "idle", pc |-> "idle", status |-> "none", result |-> NoResult,
     query |-> "Q1", key |-> "", opts |-> [cache |-> "unset", ttl |-> NoTTL],
     ttl |-> NumTTL(0), data |-> NoPayload, ret |-> NoResult,
     kinds |-> <<>>, cmd |-> NoCmd, delKeys |-> <<>>, snapshot |-> {},
     pend |-> {}, read |-> "none",
     reads |-> 0, fetches |-> 0, registers |-> 0, primes |-> 0,
     primesNoRedis |-> 0, smembers |-> 0, dels |-> 0, cacheDels |-> 0,
     prev |-> NoPrev, batch |-> <<>>, cacheSets |-> 0, cacheGets |-> 0,
     keys |-> <<>>, during |-> {}, cleaned |-> {}]

\* a process may issue a call when it is not in the middle of one; the
\* processes are interchangeable, so the second one is used only while the
\* first is busy
InFlight(pr) == pr.pc \notin {"idle", "done"}
Free(p) ==
    /\ ~InFlight(procs[p])
    /\ budget > 0
    /\ (p = "p1" \/ InFlight(procs["p1"]))

\* the record of a settled call is observable in the state that follows its
\* settlement and is dropped by the next step
Advance(p, pr) ==
    [x \in Procs |-> IF x = p THEN pr
                     ELSE IF procs[x].pc = "done" THEN Idle ELSE procs[x]]

Reject(pr, e) == [pr EXCEPT !.status = "rejected", !.result = Failure(e)]
Resolve(pr, r) == [pr EXCEPT !.status = "resolved", !.result = r]

\* Promise.all over the pending handlers: one of them (h) has settled.
\* The first failure rejects the caller; the last success resolves it.
JoinOk(pr, h) ==
    LET left == pr.pend \ {h}
        q == [pr EXCEPT !.pend = left, !.pc = IF left = {} THEN "done" ELSE pr.pc]
    IN IF left = {} /\ pr.status = "pending" THEN Resolve(q, pr.ret) ELSE q
\* mutant: a failed handler counts as a settled one
JoinFail_settled(pr, h, e) == JoinOk(pr, h)

JoinFail(pr, h, e) ==
    LET left == pr.pend \ {h}
        q == [pr EXCEPT !.pend = left, !.pc = IF left = {} THEN "done" ELSE pr.pc]
    IN IF pr.status = "pending" THEN Reject(q, e) ELSE q

\* ------------------------------------------------------------ collaborators
\* JSON.stringify(value): the stored string, written as the value it parses
\* back to (Symbol-keyed properties are not serialised)
JSONstringify(v) == JSONRoundTrip(v)

\* cache.config.ttl.stores[storeName].queries
StoreTTL(c, store) == IF store = "memory" THEN c.ttlMemory ELSE c.ttlRedis

\* the TTL a store is written with: the resolver is called with its name
TTLFor(c, ttl, store) == IF ttl.fn THEN StoreTTL(c, store) ELSE ttl.n

\* utils.ttl.getTTL(cache, options, 'queries')
getTTL(c, opts) ==
    IF opts.ttl # NoTTL THEN NumTTL(opts.ttl)
    ELSE IF c.ttlQueries = -1 THEN NumTTL(-1)
    ELSE IF Len(StoresOf(c.topo)) > 1 THEN FnTTL
    ELSE NumTTL(c.ttlQueries)

\* cacheManager.get(key): the first store, in order, that holds the key
CacheManagerGet(c, mem, red, key) ==
    LET stores == StoresOf(c.topo)
        slot(s) == IF s = "memory" THEN mem[key] ELSE red[key]
        hits == {i \in DOMAIN stores : slot(stores[i]).present}
    IN IF hits = {} THEN Absent
       ELSE slot(stores[CHOOSE i \in hits : \A j \in hits : i <= j])

\* cache.primeCache(key, value, options): the value is set in every store of
\* the cache manager in use, each with its own TTL
PrimeMem(c, mem, stores, key, v, ttl) ==
    IF "memory" \in Range(stores)
    THEN [mem EXCEPT ![key] = Entry(v, TTLFor(c, ttl, "memory"))]
    ELSE mem
PrimeRedis(c, red, stores, key, v, ttl) ==
    IF "redis" \in Range(stores)
    THEN [red EXCEPT ![key] = Entry(JSONstringify(v), TTLFor(c, ttl, "redis"))]
    ELSE red

\* redisClient.multi([...sadd, set|setex]).exec: one transaction
ExecSets(sets, cmd) ==
    [k \in Kinds |->
        IF SetName(k) \in Range(cmd.sadd) THEN sets[k] \cup {cmd.key} ELSE sets[k]]
\* mutant: the payload is written only when the key is not there yet
ExecKV_ifAbsent(kv, cmd) ==
    IF kv[cmd.key].present THEN kv
    ELSE [kv EXCEPT ![cmd.key] = Entry(cmd.val, IF cmd.op = "setex" THEN cmd.ttl ELSE 0)]

ExecKV(kv, cmd) ==
    [kv EXCEPT ![cmd.key] = Entry(cmd.val, IF cmd.op = "setex" THEN cmd.ttl ELSE 0)]

\* redisClient.del(keys): removes string keys and sets alike, and reports
\* how many of the keys existed
DelKV(kv, keys) == [k \in RedisKeys |-> IF k \in Range(keys) THEN Absent ELSE kv[k]]
DelSets(sets, keys) ==
    [k \in Kinds |-> IF SetName(k) \in Range(keys) THEN {} ELSE sets[k]]
DelCount(kv, sets, keys) ==
    Cardinality({k \in Range(keys) \cap RedisKeys : kv[k].present})
    + Cardinality({n \in Range(keys) \cap SetNames : sets[KindOfSet(n)] # {}})

\* --------------------------------------------------------- lib/queries.js
marshalKeys(entities) ==
    [i \in DOMAIN entities |-> [entities[i] EXCEPT !.dsKey = entities[i].KEY]]

unMarshalKeys(entities) ==
    [i \in DOMAIN entities |->
        IF entities[i].dsKey = "" THEN entities[i]
        ELSE [entities[i] EXCEPT !.KEY = entities[i].dsKey, !.dsKey = ""]]

\* mutant: only the first entity kind gets the key
MultiCommands_firstKind(queryKey, value, entityKind, ttl) ==
    [sadd |-> <<SetName(entityKind[1])>>, op |-> IF ttl # 0 THEN "setex" ELSE "set",
     key |-> queryKey, val |-> JSONstringify(value), ttl |-> ttl]

\* the command list handed to redisClient.multi by cacheQueryEntityKind:
\* "setex" with options.ttl when it is truthy, "set" otherwise
MultiCommands(queryKey, value, entityKind, ttl) ==
    [sadd |-> [i \in DOMAIN entityKind |-> SetName(entityKind[i])],
     op |-> IF ttl # 0 THEN "setex" ELSE "set",
     key |-> queryKey, val |-> JSONstringify(value), ttl |-> ttl]

\* mutant: the sets themselves are left in place
keysToDelete_membersOnly(response, setsQueries) == Dedupe(Flatten(response))

\* mutant: the list is not passed through a Set
keysToDelete_noDedupe(response, setsQueries) == Flatten(response) \o setsQueries

\* the key list handed to redisClient.del by cleanQueriesEntityKind
keysToDelete(response, setsQueries) == Dedupe(Flatten(response) \o setsQueries)

\* ------------------------------------------------------ earlier revision
MultiCommands_v0(queryKey, value, entityKind) ==
    [sadd |-> [i \in DOMAIN entityKind |-> SetName(entityKind[i])], op |-> "set",
     key |-> queryKey, val |-> JSONstringify(value), ttl |-> 0]

\* mutant: the members of the set are left in the store
keysToDelete_v0_setOnly(members, setQueries) == <<setQueries>>

keysToDelete_v0(members, setQueries) == members \o <<setQueries>>

\* mutant: the TTL is ttl.queries whatever the number of stores
get_ttl_number(c) == NumTTL(c.ttlQueries)

get_ttl(c) == IF Len(StoresOf(c.topo)) > 1 THEN FnTTL ELSE NumTTL(c.ttlQueries)

\* the condition under which get goes straight to the fetch handler
get_bypass(c, opts, ttl) ==
    \/ ~hasCacheManager(c)
    \/ ttl = NumTTL(-1)
    \/ opts.cache = "false"
    \/ (c.global = FALSE /\ opts.cache # "true")

\* mutant: the ttl of the Redis store is not looked at
get_usesEntityKind_never(c) == FALSE

\* get.onResult: the fetched result goes to the entity-kind set or is primed
get_usesEntityKind(c) == hasRedisClient(c) /\ c.ttlRedis = 0

\* ------------------------------------------------------------------ state
InitWith(cfgs, n) ==
    /\ config \in cfgs
    /\ memKV = [k \in RedisKeys |-> Absent]
    /\ redisKV = [k \in RedisKeys |-> Absent]
    /\ redisSets = [k \in Kinds |-> {}]
    /\ procs = [p \in Procs |-> Idle]
    /\ budget = n
    /\ registered = [k \in RedisKeys |-> {}]

Init == InitWith(Configs, MaxCalls)

NewCall(op) == [Idle EXCEPT !.op = op, !.status = "pending"]

\* the settled get/wrap call of a caller, as its next call remembers it
Summary(pr) ==
    IF pr.op \in {"get", "wrap"} /\ pr.pc = "done"
    THEN [query |-> pr.query, read |-> pr.read, fetches |-> pr.fetches,
          status |-> pr.status, data |-> pr.data]
    ELSE NoPrev

\* history: the callers whose get/wrap has its fetched result in hand and
\* its write still to come (noted by an invalidation when it is issued)
Awaiting(p) ==
    {x \in Procs \ {p} : /\ procs[x].op \in {"get", "wrap"}
                          /\ procs[x].read = "miss" /\ procs[x].pc = "priming"
                          /\ procs[x].pend \cap {"register", "prime"} # {}}
\* history: an invalidation of kinds has completed; the calls it noted
\* that have still not written to Redis remember the kinds
Noticed(ps, during, kinds) ==
    [x \in Procs |->
        IF x \in during /\ ps[x].pend \cap {"register", "prime"} # {}
        THEN [ps[x] EXCEPT !.cleaned = @ \cup kinds] ELSE ps[x]]

Issue(p, pr) ==
    /\ Free(p)
    /\ procs' = LET ps == Advance(p, [pr EXCEPT !.prev = Summary(procs[p])])
                IN [x \in Procs |->
                       IF x = p THEN ps[x] ELSE [ps[x] EXCEPT !.during = @ \ {p}]]
    /\ budget' = budget - 1
    /\ UNCHANGED <<config, memKV, redisKV, redisSets, registered>>

Step(p, pr) ==
    /\ procs' = Advance(p, pr)
    /\ UNCHANGED <<config, memKV, redisKV, redisSets, budget, registered>>

\* -------------------------------------------- get (earlier revision)
get(p, q, opts) ==
    LET ttl == get_ttl(config)
        c0 == [NewCall("get") EXCEPT !.query = q, !.opts = opts, !.ttl = ttl]
    IN IF get_bypass(config, opts, ttl)
       THEN Issue(p, [c0 EXCEPT !.pc = "fetchDirect", !.fetches = 1])
       ELSE Issue(p, [c0 EXCEPT !.pc = "read", !.key = queryToString(q), !.reads = 1])

\* mutant: the cached value is not looked at
get_onResult_ignoresCache(p) ==
    LET pr == procs[p]
    IN /\ pr.op = "get" /\ pr.pc = "read"
       /\ Step(p, [pr EXCEPT !.read = "miss", !.pc = "fetch", !.fetches = @ + 1])

\* mutant: a value found in the cache is primed again
get_onResult_reprimes(p) ==
    LET pr == procs[p]
        r == CacheManagerGet(config, memKV, redisKV, pr.key)
    IN /\ pr.op = "get" /\ pr.pc = "read"
       /\ IF r.present
          THEN Step(p, [pr EXCEPT !.read = "hit", !.pc = "priming", !.data = r.val,
                           !.ret = Value(r.val), !.primes = @ + 1, !.pend = {"prime"}])
          ELSE Step(p, [pr EXCEPT !.read = "miss", !.pc = "fetch", !.fetches = @ + 1])

\* cacheManager.get resolved: onResult runs
get_onResult(p) ==
    LET pr == procs[p]
        r == CacheManagerGet(config, memKV, redisKV, pr.key)
    IN /\ pr.op = "get" /\ pr.pc = "read"
       /\ IF r.present
          THEN Step(p, Resolve([pr EXCEPT !.read = "hit", !.pc = "done"], Value(r.val)))
          ELSE Step(p, [pr EXCEPT !.read = "miss", !.pc = "fetch", !.fetches = @ + 1])

\* mutant: the result is handed to the caller while the write is pending
get_onFetch_noWait(p, d) ==
    LET pr == procs[p]
    IN /\ pr.op = "get" /\ pr.pc = "fetch"
       /\ IF get_usesEntityKind(config)
          THEN Step(p, Resolve([pr EXCEPT !.data = d, !.ret = Value(d), !.pc = "priming",
                           !.kinds = <<QueryKinds(pr.query)[1]>>,
                           !.cmd = MultiCommands_v0(pr.key, d, <<QueryKinds(pr.query)[1]>>),
                           !.registers = @ + 1, !.pend = {"register"}], Value(d)))
          ELSE Step(p, Resolve([pr EXCEPT !.data = d, !.ret = Value(d), !.pc = "priming",
                           !.primes = @ + 1, !.pend = {"prime"}], Value(d)))

\* fetchHandler resolved after a miss: the result is registered or primed
get_onFetch(p, d) ==
    LET pr == procs[p]
    IN /\ pr.op = "get" /\ pr.pc = "fetch"
       /\ IF get_usesEntityKind(config)
          THEN Step(p, [pr EXCEPT !.data = d, !.ret = Value(d), !.pc = "priming",
                           !.kinds = <<QueryKinds(pr.query)[1]>>,
                           !.cmd = MultiCommands_v0(pr.key, d, <<QueryKinds(pr.query)[1]>>),
                           !.registers = @ + 1, !.pend = {"register"}])
          ELSE Step(p, [pr EXCEPT !.data = d, !.ret = Value(d), !.pc = "priming",
                           !.primes = @ + 1, !.pend = {"prime"}])

\* the caching is bypassed: the result of fetchHandler is the result of get
get_direct(p, d) ==
    LET pr == procs[p]
    IN /\ pr.op = "get" /\ pr.pc = "fetchDirect"
       /\ Step(p, Resolve([pr EXCEPT !.pc = "done"], Value(d)))

\* ------------------------------------------------ wrap (lib/queries.js)
wrap(p, q, opts) ==
    LET ttl == getTTL(config, opts)
        queryKey == queryToString(q)
    IN /\ Issue(p, [NewCall("wrap") EXCEPT !.query = q, !.opts = opts, !.ttl = ttl,
                        !.key = queryKey, !.pc = "read", !.reads = 1])

\* mutant: the fetch handler is called before the cached value is looked at
wrap_onResult_alwaysFetch(p) ==
    LET pr == procs[p]
        r == CacheManagerGet(config, memKV, redisKV, pr.key)
    IN /\ pr.op = "wrap" /\ pr.pc = "read"
       /\ IF r.present
          THEN Step(p, Resolve([pr EXCEPT !.read = "hit", !.pc = "done",
                                   !.fetches = @ + 1], Value(r.val)))
          ELSE Step(p, [pr EXCEPT !.read = "miss", !.pc = "fetch", !.fetches = @ + 1])

wrap_onResult(p) ==
    LET pr == procs[p]
        r == CacheManagerGet(config, memKV, redisKV, pr.key)
    IN /\ pr.op = "wrap" /\ pr.pc = "read"
       /\ IF r.present
          THEN Step(p, Resolve([pr EXCEPT !.read = "hit", !.pc = "done"], Value(r.val)))
          ELSE Step(p, [pr EXCEPT !.read = "miss", !.pc = "fetch", !.fetches = @ + 1])

\* mutant: the resolver is asked for the TTL of the memory store
redisOptions_memory(c, ttl) == IF ttl.fn THEN StoreTTL(c, "memory") ELSE ttl.n

\* the TTL handed to cacheQueryEntityKind
redisOptions(c, ttl) == IF ttl.fn THEN StoreTTL(c, "redis") ELSE ttl.n

wrap_onFetch(p, d) ==
    LET pr == procs[p]
        entities == marshalKeys(d.entities)
        kind == <<QueryKinds(pr.query)[1]>>
        reg == [pr EXCEPT !.data = d, !.ret = Value(d), !.pc = "priming",
                   !.kinds = kind,
                   !.cmd = MultiCommands(pr.key, [entities |-> entities, meta |-> d.meta],
                                         kind, redisOptions(config, pr.ttl)),
                   !.registers = @ + 1, !.pend = {"register"}]
    IN /\ pr.op = "wrap" /\ pr.pc = "fetch"
       /\ IF hasRedisClient(config)
          THEN IF hasCacheManagerNoRedis(config)
               THEN Step(p, [reg EXCEPT !.primesNoRedis = @ + 1,
                                !.pend = {"register", "primeNoRedis"}])
               ELSE Step(p, reg)
          ELSE Step(p, [pr EXCEPT !.data = d, !.ret = Value(d), !.pc = "priming",
                           !.primes = @ + 1, !.pend = {"prime"}])

\* ------------------------------------------- failures and completions
\* mutant: a failed read is taken for a miss
ReadFail_fallback(p, e) ==
    LET pr == procs[p]
    IN /\ pr.pc = "read"
       /\ Step(p, [pr EXCEPT !.read = "error", !.pc = "fetch", !.fetches = @ + 1])

\* cacheManager.get rejected: onResult never runs
ReadFail(p, e) ==
    LET pr == procs[p]
    IN /\ pr.pc = "read"
       /\ Step(p, Reject([pr EXCEPT !.read = "error", !.pc = "done"], e))

\* mutant: the rejection of the fetch handler is swallowed
FetchFail_swallowed(p, e) ==
    LET pr == procs[p]
    IN /\ pr.pc \in {"fetch", "fetchDirect"}
       /\ Step(p, Resolve([pr EXCEPT !.pc = "done"], Value(NoPayload)))

\* fetchHandler rejected
FetchFail(p, e) ==
    LET pr == procs[p]
    IN /\ pr.pc \in {"fetch", "fetchDirect"}
       /\ Step(p, Reject([pr EXCEPT !.pc = "done"], e))

\* the stores a pending prime writes to
PrimeStores(c, h) == IF h = "primeNoRedis" THEN <<"memory">> ELSE StoresOf(c.topo)

PrimeDone(p, h) ==
    LET pr == procs[p]
        stores == PrimeStores(config, h)
    IN /\ h \in pr.pend /\ h \in {"prime", "primeNoRedis"}
       /\ memKV' = PrimeMem(config, memKV, stores, pr.key, pr.data, pr.ttl)
       /\ redisKV' = PrimeRedis(config, redisKV, stores, pr.key, pr.data, pr.ttl)
       /\ registered' = IF "redis" \in Range(stores)
                        THEN [registered EXCEPT ![pr.key] = {}] ELSE registered
       /\ procs' = Advance(p, JoinOk(pr, h))
       /\ UNCHANGED <<config, redisSets, budget>>

PrimeFail(p, h, e) ==
    LET pr == procs[p]
    IN /\ h \in pr.pend /\ h \in {"prime", "primeNoRedis"}
       /\ Step(p, JoinFail(pr, h, e))

\* mutant: the transaction is dropped when a kind of the query was
\* invalidated after the fetch
MultiExec_unlessCleaned(p) ==
    LET pr == procs[p]
    IN /\ "register" \in pr.pend
       /\ IF pr.cleaned = {}
          THEN /\ redisSets' = ExecSets(redisSets, pr.cmd)
               /\ redisKV' = ExecKV(redisKV, pr.cmd)
               /\ registered' = [registered EXCEPT ![pr.cmd.key] =
                                    @ \cup {KindOfSet(n) : n \in Range(pr.cmd.sadd)}]
          ELSE UNCHANGED <<redisSets, redisKV, registered>>
       /\ procs' = Advance(p, JoinOk(pr, "register"))
       /\ UNCHANGED <<config, memKV, budget>>

\* .exec((err, response) => ...) of the multi of cacheQueryEntityKind
MultiExec(p) ==
    LET pr == procs[p]
    IN /\ "register" \in pr.pend
       /\ redisSets' = ExecSets(redisSets, pr.cmd)
       /\ redisKV' = ExecKV(redisKV, pr.cmd)
       /\ registered' = [registered EXCEPT ![pr.cmd.key] =
                            @ \cup {KindOfSet(n) : n \in Range(pr.cmd.sadd)}]
       /\ procs' = Advance(p, JoinOk(pr, "register"))
       /\ UNCHANGED <<config, memKV, budget>>

MultiExecFail(p, e) ==
    LET pr == procs[p]
    IN /\ "register" \in pr.pend
       /\ Step(p, JoinFail(pr, "register", e))

\* ---------------------------------------------- entity-kind index calls
KindLists == {<<"KA">>, <<"KB">>, <<"KA", "KB">>}
RegisterTTLs == {0, 4}

\* cacheQueryEntityKind(queryKey, value, entityKind, {ttl}) called directly
cacheQueryEntityKind(p, queryKey, value, entityKind, ttl) ==
    LET c0 == [NewCall("cacheQueryEntityKind") EXCEPT !.key = queryKey,
                  !.data = value, !.kinds = entityKind, !.ret = Ack]
    IN IF ~hasRedisClient(config)
       THEN Issue(p, Reject([c0 EXCEPT !.pc = "done"], "No Redis Client found."))
       ELSE Issue(p, [c0 EXCEPT !.pc = "priming",
                         !.cmd = MultiCommands(queryKey, value, entityKind, ttl),
                         !.registers = 1, !.pend = {"register"}])

\* the earlier revision reads cache.redisClient.multi without a check: with
\* no client the executor throws and the promise rejects with a TypeError
cacheQueryEntityKind_v0(p, queryKey, value, entityKind) ==
    LET c0 == [NewCall("cacheQueryEntityKind_v0") EXCEPT !.key = queryKey,
                  !.data = value, !.kinds = entityKind, !.ret = Ack]
    IN IF ~hasRedisClient(config)
       THEN Issue(p, Reject([c0 EXCEPT !.pc = "done"], "TypeError"))
       ELSE Issue(p, [c0 EXCEPT !.pc = "priming",
                         !.cmd = MultiCommands_v0(queryKey, value, entityKind),
                         !.registers = 1, !.pend = {"register"}])

\* mutant: the client is used without checking that it exists
cleanQueriesEntityKind_noCheck(p, entityKinds) ==
    LET c0 == [NewCall("cleanQueriesEntityKind") EXCEPT !.kinds = entityKinds]
    IN /\ Issue(p, [c0 EXCEPT !.pc = "smembers", !.smembers = 1])

\* cleanQueriesEntityKind(entityKinds): the multi of smembers is issued
cleanQueriesEntityKind(p, entityKinds) ==
    LET c0 == [NewCall("cleanQueriesEntityKind") EXCEPT !.kinds = entityKinds]
    IN IF ~hasRedisClient(config)
       THEN Issue(p, Reject([c0 EXCEPT !.pc = "done"], "No Redis Client found."))
       ELSE Issue(p, [c0 EXCEPT !.pc = "smembers", !.smembers = 1,
                         !.during = Awaiting(p)])

\* mutant: only the set of the first kind is read
clean_onMembers_firstKind(p) ==
    LET pr == procs[p]
        setsQueries == [i \in DOMAIN pr.kinds |-> SetName(pr.kinds[i])]
        response == <<SetToSeq(redisSets[pr.kinds[1]])>>
    IN /\ pr.op = "cleanQueriesEntityKind" /\ pr.pc = "smembers"
       /\ Step(p, [pr EXCEPT !.pc = "del", !.dels = @ + 1,
                      !.snapshot = Range(Flatten(response)),
                      !.delKeys = keysToDelete(response, setsQueries)])

\* the members came back: the keys to delete are collected and del is issued
clean_onMembers(p) ==
    LET pr == procs[p]
        setsQueries == [i \in DOMAIN pr.kinds |-> SetName(pr.kinds[i])]
        response == [i \in DOMAIN pr.kinds |-> SetToSeq(redisSets[pr.kinds[i]])]
    IN /\ pr.op = "cleanQueriesEntityKind" /\ pr.pc = "smembers"
       /\ Step(p, [pr EXCEPT !.pc = "del", !.dels = @ + 1,
                      !.snapshot = Range(Flatten(response)),
                      !.delKeys = keysToDelete(response, setsQueries)])

\* the earlier revision takes one entity kind and calls smembers directly
cleanQueriesEntityKind_v0(p, entityKind) ==
    LET c0 == [NewCall("cleanQueriesEntityKind_v0") EXCEPT !.kinds = <<entityKind>>]
    IN IF ~hasRedisClient(config)
       THEN Issue(p, Reject([c0 EXCEPT !.pc = "done"], "TypeError"))
       ELSE Issue(p, [c0 EXCEPT !.pc = "smembers", !.smembers = 1])

clean_onMembers_v0(p) ==
    LET pr == procs[p]
        members == SetToSeq(redisSets[pr.kinds[1]])
    IN /\ pr.op = "cleanQueriesEntityKind_v0" /\ pr.pc = "smembers"
       /\ Step(p, [pr EXCEPT !.pc = "del", !.dels = @ + 1,
                      !.snapshot = Range(members),
                      !.delKeys = keysToDelete_v0(members, SetName(pr.kinds[1]))])

\* mutant: the error of smembers is dropped and the sets are deleted anyway
SmembersFail_ignored(p, e) ==
    LET pr == procs[p]
    IN /\ pr.pc = "smembers"
       /\ Step(p, [pr EXCEPT !.pc = "del", !.dels = @ + 1,
                      !.delKeys = [i \in DOMAIN pr.kinds |-> SetName(pr.kinds[i])]])

SmembersFail(p, e) ==
    LET pr == procs[p]
    IN /\ pr.pc = "smembers"
       /\ Step(p, Reject([pr EXCEPT !.pc = "done"], e))

\* mutant: the members are read again when the delete is executed
clean_onDel_rereads(p) ==
    LET pr == procs[p]
        keys == pr.delKeys \o SetToSeq(UNION {redisSets[pr.kinds[i]] : i \in DOMAIN pr.kinds})
    IN /\ pr.pc = "del"
       /\ redisKV' = DelKV(redisKV, keys)
       /\ redisSets' = DelSets(redisSets, keys)
       /\ registered' = [k \in RedisKeys |->
                            IF k \in Range(keys) THEN {} ELSE registered[k]]
       /\ procs' = Advance(p, Resolve([pr EXCEPT !.pc = "done"],
                                   Count(DelCount(redisKV, redisSets, keys))))
       /\ UNCHANGED <<config, memKV, budget>>

\* redisClient.del(keys, (errDel, res) => ...)
clean_onDel(p) ==
    LET pr == procs[p]
    IN /\ pr.pc = "del"
       /\ redisKV' = DelKV(redisKV, pr.delKeys)
       /\ redisSets' = DelSets(redisSets, pr.delKeys)
       /\ registered' = [k \in RedisKeys |->
                            IF k \in Range(pr.delKeys) THEN {} ELSE registered[k]]
       /\ procs' = Noticed(Advance(p, Resolve([pr EXCEPT !.pc = "done"],
                                       Count(DelCount(redisKV, redisSets, pr.delKeys)))),
                           pr.during, Range(pr.kinds))
       /\ UNCHANGED <<config, memKV, budget>>

DelFail(p, e) ==
    LET pr == procs[p]
    IN /\ pr.pc = "del"
       /\ Step(p, Reject([pr EXCEPT !.pc = "done"], e))

\* ------------------------------------------------------------ mset / set
\* the queries of one mset call and the payloads given with them
QueryBatches == {<<"Q1">>, <<"Q2">>, <<"Q1", "Q2">>, <<"Q2", "Q1">>}
PayloadsFor(qs) == [DOMAIN qs -> Payloads]

\* the handlers of the entry at index i in Promise.all
RegisterOf(i) == IF i = 1 THEN "register1" ELSE "register2"
PrimeOf(i) == IF i = 1 THEN "primeNoRedis1" ELSE "primeNoRedis2"

\* setWithKind: the payload given is primed as it is
setWithKind(c, query, queryData, ttl) ==
    [key |-> queryToString(query), data |-> queryData,
     cmd |-> MultiCommands(queryToString(query),
                           [entities |-> marshalKeys(queryData.entities),
                            meta |-> queryData.meta],
                           <<QueryKinds(query)[1]>>, redisOptions(c, ttl)),
     primeVal |-> queryData]

\* one turn of the loop of msetWithKind: the marshalled entities are primed
msetWithKind(c, query, queryData, ttl) ==
    [key |-> queryToString(query), data |-> queryData,
     cmd |-> MultiCommands(queryToString(query),
                           [entities |-> marshalKeys(queryData.entities),
                            meta |-> queryData.meta],
                           <<QueryKinds(query)[1]>>, redisOptions(c, ttl)),
     primeVal |-> [entities |-> marshalKeys(queryData.entities),
                   meta |-> queryData.meta]]

\* without a Redis client the pair goes to cache.set / cache.mset as given
PlainEntry(query, queryData) ==
    [key |-> queryToString(query), data |-> queryData, cmd |-> NoCmd,
     primeVal |-> queryData]

\* mset(q1, d1, ..., qn, dn, options); set is the same function
mset(p, qs, ds, opts) ==
    LET ttl == getTTL(config, opts)
        n == Len(qs)
        c0 == [NewCall("mset") EXCEPT !.opts = opts, !.ttl = ttl, !.pc = "priming"]
        withKind == [i \in DOMAIN qs |->
                        IF n = 1 THEN setWithKind(config, qs[i], ds[i], ttl)
                        ELSE msetWithKind(config, qs[i], ds[i], ttl)]
        plain == [i \in DOMAIN qs |-> PlainEntry(qs[i], ds[i])]
    IN /\ IF hasRedisClient(config)
          THEN Issue(p, [c0 EXCEPT !.batch = withKind, !.registers = n,
                            !.primesNoRedis = IF hasCacheManagerNoRedis(config) THEN n ELSE 0,
                            !.pend = {RegisterOf(i) : i \in DOMAIN qs} \cup
                                     (IF hasCacheManagerNoRedis(config)
                                      THEN {PrimeOf(i) : i \in DOMAIN qs} ELSE {}),
                            !.ret = Values(ds)])
          ELSE Issue(p, [c0 EXCEPT !.batch = plain, !.cacheSets = 1,
                            !.pend = {"cacheSet"},
                            !.ret = IF n = 1 THEN Value(ds[1]) ELSE Values(ds)])

\* the arguments of mset as the caller lists them: queries and payloads in
\* turn, then possibly the options
NoOptions == [cache |-> "unset", ttl |-> NoTTL]
QueryArg(q) == [q |-> q, d |-> NoPayload, o |-> NoOptions]
DataArg(d) == [q |-> "", d |-> d, o |-> NoOptions]
OptionsArg(o) == [q |-> "", d |-> NoPayload, o |-> o]
ArgLists(batches, options) ==
    UNION { { [i \in 1..(2 * Len(qs)) |->
                  IF i % 2 = 1 THEN QueryArg(qs[(i + 1) \div 2])
                  ELSE DataArg(ds[i \div 2])] \o tail :
              ds \in PayloadsFor(qs),
              tail \in {<<>>} \cup {<<OptionsArg(o)>> : o \in options} } :
            qs \in batches }

\* mutant: the options are never taken off the arguments
msetOptions_none(keysValues) == NoOptions

\* keysValues.length % 2 > 0 ? keysValues.pop() : {}
msetOptions(keysValues) ==
    IF Len(keysValues) % 2 > 0 THEN keysValues[Len(keysValues)].o ELSE NoOptions
\* keysValues after the pop
msetPairs(keysValues) ==
    IF Len(keysValues) % 2 > 0 THEN SubSeq(keysValues, 1, Len(keysValues) - 1)
    ELSE keysValues

\* mset(...keysValues): the query is at the even index of a pair (from 0),
\* its payload at the next one
mset_args(p, keysValues) ==
    LET options == msetOptions(keysValues)
        kv == msetPairs(keysValues)
        n == Len(kv) \div 2
    IN mset(p, [i \in 1..n |-> kv[2 * i - 1].q], [i \in 1..n |-> kv[2 * i].d], options)

\* the multi of the entry at index i was executed
mset_MultiExec(p, i) ==
    LET pr == procs[p]
    IN /\ pr.op = "mset" /\ i \in DOMAIN pr.batch /\ RegisterOf(i) \in pr.pend
       /\ redisSets' = ExecSets(redisSets, pr.batch[i].cmd)
       /\ redisKV' = ExecKV(redisKV, pr.batch[i].cmd)
       /\ registered' = [registered EXCEPT ![pr.batch[i].key] =
                            @ \cup {KindOfSet(m) : m \in Range(pr.batch[i].cmd.sadd)}]
       /\ procs' = Advance(p, JoinOk(pr, RegisterOf(i)))
       /\ UNCHANGED <<config, memKV, budget>>

mset_MultiExecFail(p, i, e) ==
    LET pr == procs[p]
    IN /\ pr.op = "mset" /\ i \in DOMAIN pr.batch /\ RegisterOf(i) \in pr.pend
       /\ Step(p, JoinFail(pr, RegisterOf(i), e))

\* primeCache of the entry at index i on cacheManagerNoRedis resolved
mset_PrimeDone(p, i) ==
    LET pr == procs[p]
    IN /\ pr.op = "mset" /\ i \in DOMAIN pr.batch /\ PrimeOf(i) \in pr.pend
       /\ memKV' = PrimeMem(config, memKV, <<"memory">>, pr.batch[i].key,
                            pr.batch[i].primeVal, pr.ttl)
       /\ procs' = Advance(p, JoinOk(pr, PrimeOf(i)))
       /\ UNCHANGED <<config, redisKV, redisSets, budget, registered>>

mset_PrimeFail(p, i, e) ==
    LET pr == procs[p]
    IN /\ pr.op = "mset" /\ i \in DOMAIN pr.batch /\ PrimeOf(i) \in pr.pend
       /\ Step(p, JoinFail(pr, PrimeOf(i), e))

\* cache.set / cache.mset resolved: every pair is in every store
CacheSetDone(p) ==
    LET pr == procs[p]
        last(k) == CHOOSE i \in DOMAIN pr.batch :
                      /\ pr.batch[i].key = k
                      /\ \A j \in DOMAIN pr.batch : pr.batch[j].key = k => j <= i
        written == {pr.batch[i].key : i \in DOMAIN pr.batch}
        stores == StoresOf(config.topo)
    IN /\ "cacheSet" \in pr.pend
       /\ memKV' = [k \in RedisKeys |->
                       IF k \in written /\ "memory" \in Range(stores)
                       THEN Entry(pr.batch[last(k)].primeVal, TTLFor(config, pr.ttl, "memory"))
                       ELSE memKV[k]]
       /\ redisKV' = [k \in RedisKeys |->
                       IF k \in written /\ "redis" \in Range(stores)
                       THEN Entry(JSONstringify(pr.batch[last(k)].primeVal),
                                  TTLFor(config, pr.ttl, "redis"))
                       ELSE redisKV[k]]
       /\ procs' = Advance(p, JoinOk(pr, "cacheSet"))
       /\ UNCHANGED <<config, redisSets, budget, registered>>

CacheSetFail(p, e) ==
    LET pr == procs[p]
    IN /\ "cacheSet" \in pr.pend
       /\ Step(p, JoinFail(pr, "cacheSet", e))

\* ------------------------------------------------------------- mget / get
\* cache.get(key) / cache.mget(...keys): one slot per key, in the order of
\* the keys, undefined for a key that no store holds
CacheGet(c, mem, red, keys) ==
    [i \in DOMAIN keys |-> CacheManagerGet(c, mem, red, keys[i])]

\* mutant: the payloads are returned as the cache holds them
onResponse_noUnmarshal(isMultiple, response) ==
    LET found == SelectSeq(response, LAMBDA r : r.present)
    IN IF isMultiple
       THEN Values([i \in DOMAIN found |-> found[i].val])
       ELSE IF ~response[1].present THEN Undefined ELSE Value(response[1].val)

\* mget.onResponse: with one key the response is the payload or undefined,
\* with several it is the array of what was found for each key
onResponse(isMultiple, response) ==
    LET found == SelectSeq(response, LAMBDA r : r.present)
        restored(v) == [entities |-> unMarshalKeys(v.entities), meta |-> v.meta]
    IN IF isMultiple
       THEN Values([i \in DOMAIN found |-> restored(found[i].val)])
       ELSE IF ~response[1].present THEN Undefined ELSE Value(restored(response[1].val))

\* mget(...keys); get is the same function
mget(p, qs) ==
    /\ Issue(p, [NewCall("mget") EXCEPT !.pc = "cacheGet", !.cacheGets = 1,
                     !.keys = [i \in DOMAIN qs |-> queryToString(qs[i])]])

mget_onResponse(p) ==
    LET pr == procs[p]
        response == CacheGet(config, memKV, redisKV, pr.keys)
    IN /\ pr.op = "mget" /\ pr.pc = "cacheGet"
       /\ Step(p, Resolve([pr EXCEPT !.pc = "done"],
                          onResponse(Len(pr.keys) > 1, response)))

CacheGetFail(p, e) ==
    LET pr == procs[p]
    IN /\ pr.op = "mget" /\ pr.pc = "cacheGet"
       /\ Step(p, Reject([pr EXCEPT !.pc = "done"], e))

\* ------------------------------------------------------------------ del
QueryLists == {<<"Q1">>, <<"Q2">>, <<"Q1", "Q2">>}

\* cache.del(keys): the keys are removed from every store of the cache manager
CacheDelMem(c, mem, keys) ==
    IF "memory" \in Range(StoresOf(c.topo))
    THEN [k \in RedisKeys |-> IF k \in Range(keys) THEN Absent ELSE mem[k]]
    ELSE mem
CacheDelRedis(c, red, keys) ==
    IF "redis" \in Range(StoresOf(c.topo)) THEN DelKV(red, keys) ELSE red

\* mutant: the first key alone is handed to cache.del
del_firstOnly(p, keys) ==
    /\ Issue(p, [NewCall("del") EXCEPT !.pc = "cacheDel", !.cacheDels = 1, !.ret = Ack,
                     !.delKeys = <<queryToString(keys[1])>>])

\* del(...keys): one cache.del with the cache keys of the queries
del(p, keys) ==
    /\ Issue(p, [NewCall("del") EXCEPT !.pc = "cacheDel", !.cacheDels = 1, !.ret = Ack,
                     !.delKeys = [i \in DOMAIN keys |-> queryToString(keys[i])]])

CacheDel(p) ==
    LET pr == procs[p]
    IN /\ pr.pc = "cacheDel"
       /\ memKV' = CacheDelMem(config, memKV, pr.delKeys)
       /\ redisKV' = CacheDelRedis(config, redisKV, pr.delKeys)
       /\ registered' = [k \in RedisKeys |->
                            IF redisKV'[k].present THEN registered[k] ELSE {}]
       /\ procs' = Advance(p, Resolve([pr EXCEPT !.pc = "done"], pr.ret))
       /\ UNCHANGED <<config, redisSets, budget>>

CacheDelFail(p, e) ==
    LET pr == procs[p]
    IN /\ pr.pc = "cacheDel"
       /\ Step(p, Reject([pr EXCEPT !.pc = "done"], e))

\* a point-key entry written through the key cache (keys.set): it shares
\* the stores with the queries
KeysSet(k) ==
    /\ budget > 0
    /\ ~CacheManagerGet(config, memKV, redisKV, k).present
    /\ memKV' = PrimeMem(config, memKV, StoresOf(config.topo), k, NoPayload, NumTTL(0))
    /\ redisKV' = PrimeRedis(config, redisKV, StoresOf(config.topo), k, NoPayload, NumTTL(0))
    /\ budget' = budget - 1
    /\ procs' = [x \in Procs |-> IF procs[x].pc = "done" THEN Idle ELSE procs[x]]
    /\ UNCHANGED <<config, redisSets, registered>>

\* ------------------------------------------------- keys.wrap (lib/keys.js)
\* the lists of keys of one call
KeyBatches == {<<"gck:K1">>, <<"gck:K1", "gck:K2">>, <<"gck:K2", "gck:K1">>}
\* the failures of the fetch handler: the code of "entity not found" and others
NotFound == "ERR_ENTITY_NOT_FOUND"
KeyErrors == Errors \cup {NotFound}
\* the marker at the position of a key that was not found
Null == [entities |-> <<>>, meta |-> "null"]

\* the entity the database holds for a key, as the fetch handler returns it
EntityOf(k) ==
    [entities |-> <<[name |-> IF k = "gck:K1" THEN "John" ELSE "Mick",
                     KEY |-> k, dsKey |-> ""]>>,
     meta |-> ""]
\* the key identity is attached to a record on its way out of the cache
WithKEY(v, k) ==
    [entities |-> [i \in DOMAIN v.entities |-> [v.entities[i] EXCEPT !.KEY = k]],
     meta |-> v.meta]
\* and taken off on its way into the cache
WithoutKEY(v) ==
    [entities |-> [i \in DOMAIN v.entities |-> [v.entities[i] EXCEPT !.KEY = ""]],
     meta |-> v.meta]

keys_wrap(p, ks) ==
    /\ Issue(p, [NewCall("keysWrap") EXCEPT !.keys = ks, !.pc = "keysRead", !.reads = 1])

\* cacheManager.get / mget resolved: the keys not found are fetched
keys_onResult(p) ==
    LET pr == procs[p]
        slot(i) == CacheManagerGet(config, memKV, redisKV, pr.keys[i])
        b == [i \in DOMAIN pr.keys |->
                [key |-> pr.keys[i], found |-> slot(i).present,
                 data |-> IF slot(i).present THEN WithKEY(slot(i).val, pr.keys[i])
                          ELSE NoPayload]]
    IN /\ pr.op = "keysWrap" /\ pr.pc = "keysRead"
       /\ IF \A i \in DOMAIN b : b[i].found
          THEN Step(p, Resolve([pr EXCEPT !.read = "hit", !.pc = "done", !.batch = b],
                               Values([i \in DOMAIN b |-> b[i].data])))
          ELSE Step(p, [pr EXCEPT !.read = "miss", !.pc = "keysFetch", !.batch = b,
                           !.fetches = @ + 1])

\* the fetch handler resolved with the entities of the keys not found
keys_onFetch(p) ==
    LET pr == procs[p]
        b == [i \in DOMAIN pr.batch |->
                IF pr.batch[i].found THEN pr.batch[i]
                ELSE [pr.batch[i] EXCEPT !.data = EntityOf(pr.batch[i].key)]]
    IN /\ pr.op = "keysWrap" /\ pr.pc = "keysFetch"
       /\ Step(p, [pr EXCEPT !.pc = "keysPrime", !.batch = b, !.cacheSets = @ + 1,
                       !.ret = Values([i \in DOMAIN b |-> b[i].data])])

\* the fetched entities were written to the cache: the call resolves with
\* the entities of all the keys in the order of the keys
keys_onPrime(p) ==
    LET pr == procs[p]
        fetched == {pr.batch[i].key : i \in {j \in DOMAIN pr.batch : ~pr.batch[j].found}}
        stores == StoresOf(config.topo)
    IN /\ pr.op = "keysWrap" /\ pr.pc = "keysPrime"
       /\ memKV' = [k \in RedisKeys |->
                       IF k \in fetched /\ "memory" \in Range(stores)
                       THEN Entry(WithoutKEY(EntityOf(k)), 0) ELSE memKV[k]]
       /\ redisKV' = [k \in RedisKeys |->
                       IF k \in fetched /\ "redis" \in Range(stores)
                       THEN Entry(WithoutKEY(EntityOf(k)), 0) ELSE redisKV[k]]
       /\ procs' = Advance(p, Resolve([pr EXCEPT !.pc = "done"], pr.ret))
       /\ UNCHANGED <<config, redisSets, budget, registered>>

\* mutant: every failure of the fetch handler rejects the call
keys_FetchFail_rejects(p, e) ==
    LET pr == procs[p]
    IN /\ pr.op = "keysWrap" /\ pr.pc = "keysFetch"
       /\ Step(p, Reject([pr EXCEPT !.pc = "done", !.ret = Failure(e)], e))

\* the fetch handler rejected: "not found" in a call for several keys gives
\* null at the positions of the keys that were fetched
keys_FetchFail(p, e) ==
    LET pr == procs[p]
        d == [pr EXCEPT !.pc = "done", !.ret = Failure(e)]
    IN /\ pr.op = "keysWrap" /\ pr.pc = "keysFetch"
       /\ IF e = NotFound /\ Len(pr.keys) > 1
          THEN Step(p, Resolve(d, Values([i \in DOMAIN pr.batch |->
                                            IF pr.batch[i].found THEN pr.batch[i].data
                                            ELSE Null])))
          ELSE Step(p, Reject(d, e))

Next ==
    \/ \E p \in Sequential, q \in Queries, o \in Options : get(p, q, o)
    \/ \E p \in Sequential : get_onResult(p)
    \/ \E p \in Sequential, d \in Payloads : get_onFetch(p, d)
    \/ \E p \in Sequential, d \in Payloads : get_direct(p, d)
    \/ \E p \in Sequential, q \in Queries, o \in Options : wrap(p, q, o)
    \/ \E p \in Sequential : wrap_onResult(p)
    \/ \E p \in Sequential, d \in Payloads : wrap_onFetch(p, d)
    \/ \E p \in Sequential, e \in Errors : ReadFail(p, e)
    \/ \E p \in Sequential, e \in Errors : FetchFail(p, e)
    \/ \E p \in Sequential, h \in {"prime", "primeNoRedis"} : PrimeDone(p, h)
    \/ \E p \in Sequential, h \in {"prime", "primeNoRedis"}, e \in Errors : PrimeFail(p, h, e)
    \/ \E p \in Sequential : MultiExec(p)
    \/ \E p \in Sequential, e \in Errors : MultiExecFail(p, e)
    \/ \E p \in Sequential, k \in QueryKeys, d \in Payloads, ks \in KindLists, t \in RegisterTTLs :
          cacheQueryEntityKind(p, k, d, ks, t)
    \/ \E p \in Sequential, k \in QueryKeys, d \in Payloads, ks \in KindLists :
          cacheQueryEntityKind_v0(p, k, d, ks)
    \/ \E p \in Sequential, ks \in KindLists : cleanQueriesEntityKind(p, ks)
    \/ \E p \in Sequential : clean_onMembers(p)
    \/ \E p \in Sequential, k \in Kinds : cleanQueriesEntityKind_v0(p, k)
    \/ \E p \in Sequential : clean_onMembers_v0(p)
    \/ \E p \in Sequential, e \in Errors : SmembersFail(p, e)
    \/ \E p \in Sequential : clean_onDel(p)
    \/ \E p \in Sequential, e \in Errors : DelFail(p, e)
    \/ \E k \in PointKeys : KeysSet(k)
    \/ \E p \in Sequential, qs \in QueryLists : del(p, qs)
    \/ \E p \in Sequential : CacheDel(p)
    \/ \E p \in Sequential, e \in Errors : CacheDelFail(p, e)
    \/ \E p \in Sequential, qs \in QueryBatches, o \in DefaultOptions :
          \E ds \in PayloadsFor(qs) : mset(p, qs, ds, o)
    \/ \E p \in Sequential, i \in {1, 2} : mset_MultiExec(p, i)
    \/ \E p \in Sequential, i \in {1, 2}, e \in Errors : mset_MultiExecFail(p, i, e)
    \/ \E p \in Sequential, i \in {1, 2} : mset_PrimeDone(p, i)
    \/ \E p \in Sequential, i \in {1, 2}, e \in Errors : mset_PrimeFail(p, i, e)
    \/ \E p \in Sequential : CacheSetDone(p)
    \/ \E p \in Sequential, e \in Errors : CacheSetFail(p, e)
    \/ \E p \in Sequential, qs \in QueryBatches : mget(p, qs)
    \/ \E p \in Sequential : mget_onResponse(p)
    \/ \E p \in Sequential, e \in Errors : CacheGetFail(p, e)
    \/ \E p \in Sequential, ks \in KeyBatches : keys_wrap(p, ks)
    \/ \E p \in Sequential : keys_onResult(p)
    \/ \E p \in Sequential : keys_onFetch(p)
    \/ \E p \in Sequential : keys_onPrime(p)
    \/ \E p \in Sequential, e \in KeyErrors : keys_FetchFail(p, e)

Spec == Init /\ [][Next]_vars

\* ---------------------------------------------------------------------
\* The cache-or-fetch calls alone, under every configuration
InitGet == InitWith(Configs, MaxGetCalls)

NextGet ==
    \/ \E p \in Sequential, q \in Queries, o \in Options : get(p, q, o)
    \/ \E p \in Sequential : get_onResult(p)
    \/ \E p \in Sequential, d \in Payloads : get_onFetch(p, d)
    \/ \E p \in Sequential, d \in Payloads : get_direct(p, d)
    \/ \E p \in Sequential, q \in Queries, o \in Options : wrap(p, q, o)
    \/ \E p \in Sequential : wrap_onResult(p)
    \/ \E p \in Sequential, d \in Payloads : wrap_onFetch(p, d)
    \/ \E p \in Sequential, e \in Errors : ReadFail(p, e)
    \/ \E p \in Sequential, e \in Errors : FetchFail(p, e)
    \/ \E p \in Sequential, h \in {"prime", "primeNoRedis"} : PrimeDone(p, h)
    \/ \E p \in Sequential, h \in {"prime", "primeNoRedis"}, e \in Errors : PrimeFail(p, h, e)
    \/ \E p \in Sequential : MultiExec(p)
    \/ \E p \in Sequential, e \in Errors : MultiExecFail(p, e)

SpecGet == InitGet /\ [][NextGet]_vars

\* The entity-kind index alone; of the configuration only the presence of
\* the Redis client matters to it
IndexConfigs == {c \in Configs : c.global /\ c.ttlQueries = 5 /\ c.ttlRedis = 0}
InitIndex == InitWith(IndexConfigs, MaxIndexCalls)

NextIndex ==
    \/ \E p \in Sequential, k \in QueryKeys, d \in Payloads, ks \in KindLists, t \in RegisterTTLs :
          cacheQueryEntityKind(p, k, d, ks, t)
    \/ \E p \in Sequential, k \in QueryKeys, d \in Payloads, ks \in KindLists :
          cacheQueryEntityKind_v0(p, k, d, ks)
    \/ \E p \in Sequential : MultiExec(p)
    \/ \E p \in Sequential, e \in Errors : MultiExecFail(p, e)
    \/ \E p \in Sequential, ks \in KindLists : cleanQueriesEntityKind(p, ks)
    \/ \E p \in Sequential : clean_onMembers(p)
    \/ \E p \in Sequential, k \in Kinds : cleanQueriesEntityKind_v0(p, k)
    \/ \E p \in Sequential : clean_onMembers_v0(p)
    \/ \E p \in Sequential, e \in Errors : SmembersFail(p, e)
    \/ \E p \in Sequential : clean_onDel(p)
    \/ \E p \in Sequential, e \in Errors : DelFail(p, e)
    \/ \E k \in PointKeys : KeysSet(k)

SpecIndex == InitIndex /\ [][NextIndex]_vars

\* Calls on the entity-kind index issued by two callers, so that the steps
\* of one call interleave with the steps of the other
RaceConfigs == {c \in IndexConfigs : hasRedisClient(c)}
InitRaceIndex == InitWith(RaceConfigs, MaxRaceCalls)

NextRaceIndex ==
    \/ \E p \in Procs, k \in QueryKeys, d \in Payloads, ks \in KindLists, t \in RegisterTTLs :
          cacheQueryEntityKind(p, k, d, ks, t)
    \/ \E p \in Procs : MultiExec(p)
    \/ \E p \in Procs, ks \in KindLists : cleanQueriesEntityKind(p, ks)
    \/ \E p \in Procs : clean_onMembers(p)
    \/ \E p \in Procs, k \in Kinds : cleanQueriesEntityKind_v0(p, k)
    \/ \E p \in Procs : clean_onMembers_v0(p)
    \/ \E p \in Procs : clean_onDel(p)
    \/ \E p \in Procs, qs \in QueryLists : del(p, qs)
    \/ \E p \in Procs : CacheDel(p)

SpecRaceIndex == InitRaceIndex /\ [][NextRaceIndex]_vars

\* Cache-or-fetch calls issued by two callers with caching on and no
\* per-call option
RaceGetConfigs == {c \in Configs : c.global /\ c.ttlQueries = 5}
InitRaceGet == InitWith(RaceGetConfigs, MaxRaceCalls)

NextRaceGet ==
    \/ \E p \in Procs, q \in Queries, o \in DefaultOptions : get(p, q, o)
    \/ \E p \in Procs : get_onResult(p)
    \/ \E p \in Procs, d \in Payloads : get_onFetch(p, d)
    \/ \E p \in Procs, q \in Queries, o \in DefaultOptions : wrap(p, q, o)
    \/ \E p \in Procs : wrap_onResult(p)
    \/ \E p \in Procs, d \in Payloads : wrap_onFetch(p, d)
    \/ \E p \in Procs, h \in {"prime", "primeNoRedis"} : PrimeDone(p, h)
    \/ \E p \in Procs : MultiExec(p)

SpecRaceGet == InitRaceGet /\ [][NextRaceGet]_vars

\* Writes through set/mset, one call after another; the global switch is
\* not read by them
SetConfigs == {c \in Configs : c.global}
InitSet == InitWith(SetConfigs, MaxSetCalls)

NextSet ==
    \/ \E p \in Sequential, qs \in QueryBatches, o \in DefaultOptions :
          \E ds \in PayloadsFor(qs) : mset(p, qs, ds, o)
    \/ \E p \in Sequential, i \in {1, 2} : mset_MultiExec(p, i)
    \/ \E p \in Sequential, i \in {1, 2}, e \in Errors : mset_MultiExecFail(p, i, e)
    \/ \E p \in Sequential, i \in {1, 2} : mset_PrimeDone(p, i)
    \/ \E p \in Sequential, i \in {1, 2}, e \in Errors : mset_PrimeFail(p, i, e)
    \/ \E p \in Sequential : CacheSetDone(p)
    \/ \E p \in Sequential, e \in Errors : CacheSetFail(p, e)

SpecSet == InitSet /\ [][NextSet]_vars

\* Reads through mget/get of what set/mset have written
InitRead == InitWith(SetConfigs, MaxReadCalls)

NextRead ==
    \/ \E p \in Sequential, qs \in QueryBatches, o \in DefaultOptions :
          \E ds \in PayloadsFor(qs) : mset(p, qs, ds, o)
    \/ \E p \in Sequential, i \in {1, 2} : mset_MultiExec(p, i)
    \/ \E p \in Sequential, i \in {1, 2} : mset_PrimeDone(p, i)
    \/ \E p \in Sequential : CacheSetDone(p)
    \/ \E p \in Sequential, qs \in QueryBatches : mget(p, qs)
    \/ \E p \in Sequential : mget_onResponse(p)
    \/ \E p \in Sequential, e \in Errors : CacheGetFail(p, e)

SpecRead == InitRead /\ [][NextRead]_vars

\* Writes routed through the entity-kind index: wrap after a miss and
\* set/mset, with a Redis client, one call after another
KindConfigs == {c \in Configs : hasRedisClient(c) /\ c.global /\ c.ttlQueries = 5}
InitKind == InitWith(KindConfigs, MaxKindCalls)
\* set with one pair and mset with two
KindBatches == {<<"Q2">>, <<"Q1", "Q2">>}

NextKind ==
    \/ \E p \in Sequential, q \in Queries, o \in DefaultOptions : wrap(p, q, o)
    \/ \E p \in Sequential : wrap_onResult(p)
    \/ \E p \in Sequential, d \in Payloads : wrap_onFetch(p, d)
    \/ \E p \in Sequential : MultiExec(p)
    \/ \E p \in Sequential, e \in Errors : MultiExecFail(p, e)
    \/ \E p \in Sequential, h \in {"prime", "primeNoRedis"} : PrimeDone(p, h)
    \/ \E p \in Sequential, h \in {"prime", "primeNoRedis"}, e \in Errors :
          PrimeFail(p, h, e)
    \/ \E p \in Sequential, qs \in KindBatches, o \in DefaultOptions :
          \E ds \in PayloadsFor(qs) : mset(p, qs, ds, o)
    \/ \E p \in Sequential, i \in {1, 2} : mset_MultiExec(p, i)
    \/ \E p \in Sequential, i \in {1, 2}, e \in Errors : mset_MultiExecFail(p, i, e)
    \/ \E p \in Sequential, i \in {1, 2} : mset_PrimeDone(p, i)
    \/ \E p \in Sequential, i \in {1, 2}, e \in Errors : mset_PrimeFail(p, i, e)

SpecKind == InitKind /\ [][NextKind]_vars

\* Calls with and without a TTL of their own, one after another, with the
\* global switch on
TTLConfigs == {c \in Configs : c.global}
InitTTL == InitWith(TTLConfigs, MaxTTLCalls)
\* set with one pair and mset with two
TTLBatches == {<<"Q1">>, <<"Q1", "Q2">>}

NextTTL ==
    \/ \E p \in Sequential, o \in DefaultOptions \cup TTLOptions : get(p, "Q1", o)
    \/ \E p \in Sequential : get_onResult(p)
    \/ \E p \in Sequential, d \in Payloads : get_onFetch(p, d)
    \/ \E p \in Sequential, d \in Payloads : get_direct(p, d)
    \/ \E p \in Sequential, o \in DefaultOptions \cup TTLOptions : wrap(p, "Q1", o)
    \/ \E p \in Sequential : wrap_onResult(p)
    \/ \E p \in Sequential, d \in Payloads : wrap_onFetch(p, d)
    \/ \E p \in Sequential : MultiExec(p)
    \/ \E p \in Sequential, h \in {"prime", "primeNoRedis"} : PrimeDone(p, h)
    \/ \E p \in Sequential, keysValues \in ArgLists(TTLBatches, TTLOptions) :
          mset_args(p, keysValues)
    \/ \E p \in Sequential, i \in {1, 2} : mset_MultiExec(p, i)
    \/ \E p \in Sequential, i \in {1, 2} : mset_PrimeDone(p, i)
    \/ \E p \in Sequential : CacheSetDone(p)

SpecTTL == InitTTL /\ [][NextTTL]_vars

\* Point-key lookups through keys.wrap, one call after another
KeyConfigs == {c \in Configs : c.global /\ c.ttlQueries = 5 /\ c.ttlRedis = 4}
InitKeys == InitWith(KeyConfigs, MaxKeyCalls)

NextKeys ==
    \/ \E p \in Sequential, ks \in KeyBatches : keys_wrap(p, ks)
    \/ \E p \in Sequential : keys_onResult(p)
    \/ \E p \in Sequential : keys_onFetch(p)
    \/ \E p \in Sequential : keys_onPrime(p)
    \/ \E p \in Sequential, e \in KeyErrors : keys_FetchFail(p, e)

SpecKeys == InitKeys /\ [][NextKeys]_vars

\* wrap and invalidation by two callers, with a Redis client
InvalidateConfigs == {c \in RaceGetConfigs : hasRedisClient(c)}
InitRaceInvalidate == InitWith(InvalidateConfigs, MaxRaceCalls)

NextRaceInvalidate ==
    \/ \E p \in Procs, q \in Queries, o \in DefaultOptions : wrap(p, q, o)
    \/ \E p \in Procs : wrap_onResult(p)
    \/ \E p \in Procs, d \in Payloads : wrap_onFetch(p, d)
    \/ \E p \in Procs : MultiExec(p)
    \/ \E p \in Procs : PrimeDone(p, "primeNoRedis")
    \/ \E p \in Procs, ks \in KindLists : cleanQueriesEntityKind(p, ks)
    \/ \E p \in Procs : clean_onMembers(p)
    \/ \E p \in Procs : clean_onDel(p)

SpecRaceInvalidate == InitRaceInvalidate /\ [][NextRaceInvalidate]_vars

\* ======================================================================
\* Properties
\* ======================================================================
IsGet(pr) == pr.op \in {"get", "wrap"}
\* the fetch handler has resolved after a miss and the result is being cached
Fetched(pr) == pr.read = "miss" /\ pr.data \in Payloads
NoCacheWrite(pr) == pr.registers = 0 /\ pr.primes = 0 /\ pr.primesNoRedis = 0

\* C1: in a get/wrap call that read the cache, a hit means the fetch handler
\* was not invoked during the call and a miss means it was invoked
C1_HitNeverFetches ==
    \A p \in Procs :
        IsGet(procs[p]) =>
            /\ procs[p].read = "hit" => procs[p].fetches = 0
            /\ procs[p].read = "miss" => procs[p].fetches = 1

\* a get resolved from the cache with the payload an earlier call cached
C1_Witness ==
    \E p \in Procs :
        /\ procs[p].op = "get" /\ procs[p].read = "hit"
        /\ procs[p].status = "resolved" /\ procs[p].result.val.meta = "m1"
        /\ procs[p].fetches = 0

\* C2: with ttl.queries = -1 a get/wrap call reads nothing from the cache and
\* writes nothing to it, whatever its options, and resolves with the result
\* of the fetch handler
C2_NeverCacheBypasses ==
    \A p \in Procs :
        (IsGet(procs[p]) /\ config.ttlQueries = -1) =>
            /\ procs[p].reads = 0
            /\ NoCacheWrite(procs[p])
            /\ procs[p].fetches = 1

\* C3: {cache: false} skips the cache although caching is on globally,
\* {cache: true} uses it although caching is off globally, and with caching
\* off globally and no opt-in the cache is skipped
C3_PerCallOption ==
    \A p \in Procs :
        LET pr == procs[p] IN
        (IsGet(pr) /\ config.ttlQueries # -1) =>
            /\ pr.opts.cache = "false" =>
                  pr.reads = 0 /\ NoCacheWrite(pr) /\ pr.fetches = 1
            /\ pr.opts.cache = "true" =>
                  pr.reads = 1 /\ (pr.read = "hit" => pr.fetches = 0)
            /\ (config.global = FALSE /\ pr.opts.cache = "unset") =>
                  pr.reads = 0 /\ NoCacheWrite(pr) /\ pr.fetches = 1

\* C4: after a miss, with a Redis client and ttl.stores.redis.queries = 0,
\* the result goes to Redis through cacheQueryEntityKind alone: one multi
\* that adds the key to the set of the query's kind and sets the payload;
\* primeCache is not called on the cache manager that holds the Redis store
C4_RegistersOnly ==
    \A p \in Procs :
        LET pr == procs[p]
            kind == QueryKinds(pr.query)[1]
        IN (IsGet(pr) /\ Fetched(pr) /\ hasRedisClient(config) /\ config.ttlRedis = 0) =>
            /\ pr.registers = 1 /\ pr.primes = 0
            /\ pr.cmd.key = queryToString(pr.query)
            /\ pr.cmd.sadd = <<SetName(kind)>>
            /\ "register" \in pr.pend => ~redisKV[pr.key].present
            /\ pr.status = "resolved" =>
                  /\ pr.key \in redisSets[kind]
                  /\ redisKV[pr.key].present
                  /\ redisKV[pr.key].val.meta = pr.data.meta

C4_Witness ==
    \E p \in Procs :
        /\ procs[p].op = "get" /\ Fetched(procs[p]) /\ procs[p].status = "resolved"
        /\ config.topo = "redis" /\ config.ttlRedis = 0
        /\ procs[p].key \in redisSets["KB"] /\ redisKV[procs[p].key].present

\* C5: after a miss (caching on: global caching, ttl.queries not -1), with
\* a Redis client and a positive ttl.stores.redis.queries, the result is
\* primed through primeCache and cacheQueryEntityKind is not called, so no
\* set changes
C5_PositiveTTLPrimes ==
    \A p \in Procs :
        LET pr == procs[p] IN
        (IsGet(pr) /\ Fetched(pr) /\ hasRedisClient(config) /\ config.ttlRedis > 0
            /\ config.global /\ config.ttlQueries # -1) =>
            /\ pr.primes = 1 /\ pr.registers = 0
            /\ pr.cmd = NoCmd

\* ----------------------------------------------------- entity-kind index
IsRegister(pr) == pr.op \in {"cacheQueryEntityKind", "cacheQueryEntityKind_v0"}
IsClean(pr) == pr.op \in {"cleanQueriesEntityKind", "cleanQueriesEntityKind_v0"}
KindsOf(pr) == {pr.kinds[i] : i \in DOMAIN pr.kinds}
\* the members of the sets of the kinds a call names
MembersOf(pr) == UNION {redisSets[k] : k \in KindsOf(pr)}
\* the payload as Redis holds it: the JSON text of the value
Serialized(v) ==
    [entities |-> [i \in DOMAIN v.entities |->
                      [name |-> v.entities[i].name, KEY |-> "", dsKey |-> v.entities[i].dsKey]],
     meta |-> v.meta]

\* C6: a successful cacheQueryEntityKind takes effect in one step: the key is
\* then in the set of every kind given and the serialized payload is stored
\* under it; no step adds a key to a set without completing all of this
C6_RegisterAtomic ==
    [][ /\ \A p \in Procs :
            LET pr == procs[p] IN
            (IsRegister(pr) /\ "register" \in pr.pend /\ procs'[p].status = "resolved") =>
                /\ \A k \in KindsOf(pr) : pr.key \in redisSets'[k]
                /\ redisKV'[pr.key].present
                /\ redisKV'[pr.key].val = Serialized(pr.data)
        /\ \A key \in QueryKeys :
            (\E k \in Kinds : key \in redisSets'[k] \ redisSets[k]) =>
                /\ redisKV'[key].present
                /\ \E p \in Procs :
                      /\ "register" \in procs[p].pend /\ procs[p].key = key
                      /\ \A k \in KindsOf(procs[p]) : key \in redisSets'[k]
      ]_vars

C6_Witness ==
    \E p \in Procs :
        /\ IsRegister(procs[p]) /\ procs[p].status = "resolved"
        /\ procs[p].kinds = <<"KA", "KB">>
        /\ procs[p].key \in redisSets["KA"] \cap redisSets["KB"]
        /\ redisKV[procs[p].key].val = Serialized(procs[p].data)

\* C7: when cleanQueriesEntityKind runs alone, its delete removes every key
\* that is a member of a requested set, and the sets, and the call resolves
\* with the number of keys Redis removed
C7_InvalidateRemovesAll ==
    [][ \A p \in Procs :
            LET pr == procs[p]
                live == {k \in MembersOf(pr) : redisKV[k].present}
                sets == {k \in KindsOf(pr) : redisSets[k] # {}}
            IN (IsClean(pr) /\ pr.pc = "del" /\ procs'[p].status = "resolved") =>
                /\ \A k \in MembersOf(pr) : ~redisKV'[k].present
                /\ \A k \in KindsOf(pr) : redisSets'[k] = {}
                /\ procs'[p].result = Count(Cardinality(live) + Cardinality(sets))
      ]_vars

\* two keys registered under one kind, then that kind invalidated
C7_Witness ==
    \E p \in Procs :
        /\ procs[p].op = "cleanQueriesEntityKind" /\ procs[p].status = "resolved"
        /\ procs[p].kinds = <<"KA">> /\ procs[p].snapshot = QueryKeys
        /\ procs[p].result = Count(3)
        /\ \A k \in QueryKeys : ~redisKV[k].present
        /\ redisSets["KA"] = {}

\* C8: the one del command of cleanQueriesEntityKind names, each once, the
\* members of the requested sets and the sets; every other key is untouched
C8_OneDelete ==
    [][ \A p \in Procs :
            LET pr == procs[p]
                names == {SetName(k) : k \in KindsOf(pr)}
                keys == MembersOf(pr) \cup names
            IN (IsClean(pr) /\ pr.pc = "del" /\ procs'[p].status = "resolved") =>
                /\ procs'[p].dels = 1
                /\ NoDuplicates(pr.delKeys)
                /\ Range(pr.delKeys) = keys
                /\ \A k \in RedisKeys \ keys : redisKV'[k] = redisKV[k]
                /\ \A k \in Kinds \ KindsOf(pr) : redisSets'[k] = redisSets[k]
                /\ memKV' = memKV
      ]_vars

\* a key registered under both requested kinds, and a point key that stays
C8_Witness ==
    \E p \in Procs :
        /\ procs[p].op = "cleanQueriesEntityKind" /\ procs[p].status = "resolved"
        /\ procs[p].kinds = <<"KA", "KB">>
        /\ Len(procs[p].delKeys) = 3 /\ Cardinality(procs[p].snapshot) = 1
        /\ redisKV["gck:K1"].present

\* C9: without a Redis client cacheQueryEntityKind and cleanQueriesEntityKind
\* reject with the "No Redis Client found." error, send nothing to a store
\* and change nothing
C9_NoClientRejects ==
    [][ \A p \in Procs :
            LET pr == procs'[p] IN
            (pr.op \in {"cacheQueryEntityKind", "cleanQueriesEntityKind"}
                /\ pr # procs[p] /\ ~hasRedisClient(config)) =>
                /\ pr.status = "rejected"
                /\ pr.result = Failure("No Redis Client found.")
                /\ pr.registers = 0 /\ pr.smembers = 0 /\ pr.dels = 0
                /\ pr.pend = {} /\ pr.pc = "done"
                /\ memKV' = memKV /\ redisKV' = redisKV /\ redisSets' = redisSets
      ]_vars

C9_Witness ==
    \E p \in Procs :
        /\ procs[p].op = "cleanQueriesEntityKind" /\ procs[p].status = "rejected"
        /\ ~hasRedisClient(config)
        /\ memKV["gck:K1"].present

\* C10: a failure of the multi, of the read of the members or of the del
\* rejects the call with the error of the store; after a failed read of the
\* members no del is sent and no key is removed
C10_StoreErrorSurfaces ==
    [][ \A p \in Procs, e \in Errors :
            /\ (MultiExecFail(p, e) /\ IsRegister(procs[p])) =>
                  /\ procs'[p].status = "rejected" /\ procs'[p].result = Failure(e)
                  /\ procs'[p].registers = 1 /\ procs'[p].pc = "done"
                  /\ redisKV' = redisKV /\ redisSets' = redisSets
            /\ (SmembersFail(p, e) /\ IsClean(procs[p])) =>
                  /\ procs'[p].status = "rejected" /\ procs'[p].result = Failure(e)
                  /\ procs'[p].smembers = 1 /\ procs'[p].dels = 0 /\ procs'[p].pc = "done"
                  /\ redisKV' = redisKV /\ redisSets' = redisSets
            /\ (DelFail(p, e) /\ IsClean(procs[p])) =>
                  /\ procs'[p].status = "rejected" /\ procs'[p].result = Failure(e)
                  /\ procs'[p].dels = 1 /\ procs'[p].pc = "done"
                  /\ redisKV' = redisKV /\ redisSets' = redisSets
      ]_vars

\* the read of the members failed while a registered key was in the store
C10_Witness ==
    \E p \in Procs :
        /\ IsClean(procs[p]) /\ procs[p].status = "rejected"
        /\ procs[p].result = Failure("E2")
        /\ procs[p].smembers = 1 /\ procs[p].dels = 0
        /\ \E k \in QueryKeys : redisKV[k].present /\ k \in MembersOf(procs[p])

\* ------------------------------------------------------- later properties
\* C11: when the fetch handler rejects after a miss, the call rejects with
\* that error, no prime and no cacheQueryEntityKind is issued, and the stores
\* and the sets are left as they were
C11_FetchFailureLeavesNoTrace ==
    [][ \A p \in Procs, e \in Errors :
            (FetchFail(p, e) /\ IsGet(procs[p]) /\ procs[p].pc = "fetch") =>
                /\ procs'[p].status = "rejected" /\ procs'[p].result = Failure(e)
                /\ procs'[p].pc = "done" /\ procs'[p].fetches = 1
                /\ NoCacheWrite(procs'[p]) /\ procs'[p].pend = {}
                /\ procs'[p].cmd = NoCmd
                /\ memKV' = memKV /\ redisKV' = redisKV /\ redisSets' = redisSets
                /\ ~CacheManagerGet(config, memKV', redisKV', procs[p].key).present
      ]_vars

\* a wrap of Q1 missed and its fetch failed, while the result of an earlier
\* call for Q2 stays cached
C11_Witness ==
    \E p \in Procs :
        /\ procs[p].op = "wrap" /\ procs[p].read = "miss" /\ procs[p].query = "Q1"
        /\ procs[p].status = "rejected" /\ procs[p].result = Failure("E1")
        /\ ~CacheManagerGet(config, memKV, redisKV, "gcq:Q1").present
        /\ CacheManagerGet(config, memKV, redisKV, "gcq:Q2").present

\* C12 as claimed: between the membership read of an invalidation and its
\* delete no write to the distributed store takes effect
C12_InvalidateOneTransaction ==
    [][ \A p \in Procs :
            (IsClean(procs[p]) /\ procs[p].pc = "del" /\ procs'[p].pc = "del") =>
                redisKV' = redisKV /\ redisSets' = redisSets
      ]_vars

\* C12 as amended: the membership of all the requested sets is read in one
\* step and the collected keys are deleted in one later step; the delete
\* removes the keys of that read and the sets, whatever was written since
C12_ReadThenDelete ==
    [][ \A p \in Procs :
            LET pr == procs[p]
                names == {SetName(k) : k \in KindsOf(pr)}
            IN IsClean(pr) =>
                /\ (pr.pc = "smembers" /\ procs'[p].pc = "del") =>
                      /\ procs'[p].snapshot = MembersOf(pr)
                      /\ Range(procs'[p].delKeys) = MembersOf(pr) \cup names
                      /\ redisKV' = redisKV /\ redisSets' = redisSets
                /\ (pr.pc = "del" /\ procs'[p].pc = "del") =>
                      procs'[p].snapshot = pr.snapshot /\ procs'[p].delKeys = pr.delKeys
                /\ (pr.pc = "del" /\ procs'[p].status = "resolved") =>
                      /\ \A k \in RedisKeys :
                            redisKV'[k] = IF k \in pr.snapshot THEN Absent ELSE redisKV[k]
                      /\ \A k \in Kinds :
                            redisSets'[k] = IF k \in KindsOf(pr) THEN {} ELSE redisSets[k]
      ]_vars

\* an invalidation of two kinds that has read the members and not yet
\* deleted them, and a key registered under one of the kinds since
C12_Witness ==
    \E p \in Procs :
        /\ procs[p].op = "cleanQueriesEntityKind" /\ procs[p].pc = "del"
        /\ Len(procs[p].kinds) = 2
        /\ \E k \in MembersOf(procs[p]) \ procs[p].snapshot : redisKV[k].present

\* C13: the delete of an invalidation leaves in the store every key that was
\* registered under one of its kinds after its membership read, with the
\* payload registered, and removes the sets of its kinds
C13_RaceLeavesKey ==
    [][ \A p \in Procs :
            LET pr == procs[p] IN
            (IsClean(pr) /\ pr.pc = "del" /\ procs'[p].status = "resolved") =>
                /\ \A k \in MembersOf(pr) \ pr.snapshot :
                      redisKV'[k] = redisKV[k] /\ registered'[k] = registered[k]
                /\ \A k \in KindsOf(pr) : redisSets'[k] = {}
      ]_vars

\* the invalidation has completed, the payload registered during it is
\* stored under its key, and the set of the kind is gone
C13_Witness ==
    \E p \in Procs, key \in QueryKeys, k \in Kinds :
        /\ procs[p].op = "cleanQueriesEntityKind" /\ procs[p].status = "resolved"
        /\ k \in KindsOf(procs[p]) /\ key \notin procs[p].snapshot
        /\ redisKV[key].present /\ redisKV[key].val.meta = "m2"
        /\ k \in registered[key] /\ redisSets[k] = {}

\* C14 as claimed: a key whose payload was stored by cacheQueryEntityKind and
\* is still in Redis is a member of the set of every kind it was registered
\* under
C14_RegisteredKeyInSets ==
    \A key \in QueryKeys :
        redisKV[key].present => \A k \in registered[key] : key \in redisSets[k]

\* C14 as amended: the registration puts the key in the set of every kind,
\* and a registered key that stays in Redis leaves the set of one of its
\* kinds only through the delete of an invalidation of that kind whose
\* membership read did not see the key
C14_MembershipLostOnlyByRace ==
    [][ \A key \in QueryKeys, k \in Kinds :
            /\ (k \in registered'[key] \ registered[key]) =>
                   key \in redisSets'[k] /\ redisKV'[key].present
            /\ (k \in registered[key] /\ k \in registered'[key]
                    /\ redisKV'[key].present /\ key \in redisSets[k]) =>
                   \/ key \in redisSets'[k]
                   \/ \E p \in Procs :
                         /\ IsClean(procs[p]) /\ procs[p].pc = "del"
                         /\ procs'[p].status = "resolved"
                         /\ k \in KindsOf(procs[p]) /\ key \notin procs[p].snapshot
      ]_vars

\* a key registered under two kinds survives the deletion of the other key
\* and is still a member of both sets
C14_Witness ==
    /\ redisKV["gcq:Q1"].present /\ registered["gcq:Q1"] = {"KA", "KB"}
    /\ "gcq:Q1" \in redisSets["KA"] \cap redisSets["KB"]
    /\ \E p \in Procs : procs[p].op = "del" /\ procs[p].status = "resolved"
                          /\ procs[p].delKeys = <<"gcq:Q2">>

\* the payload a store holds is the one a call fetched
SamePayload(a, b) ==
    /\ a.meta = b.meta
    /\ Len(a.entities) = Len(b.entities)
    /\ \A i \in DOMAIN a.entities : a.entities[i].name = b.entities[i].name

\* C15: two get/wrap calls for one query that both missed both call the
\* fetch handler and both issue their cache write, and each write replaces
\* what is stored under the key, so the last one stays
C15_NoSingleFlight ==
    [][ \A p, q \in Procs :
            LET pr == procs[p]
                qr == procs[q]
            IN (p # q /\ IsGet(pr) /\ IsGet(qr) /\ pr.key = qr.key
                    /\ pr.read = "miss" /\ qr.read = "miss") =>
                /\ pr.fetches = 1 /\ qr.fetches = 1
                /\ Fetched(pr) => ~NoCacheWrite(pr)
                /\ Fetched(qr) => ~NoCacheWrite(qr)
                /\ MultiExec(p) =>
                      redisKV'[pr.key].present /\ SamePayload(redisKV'[pr.key].val, pr.data)
                /\ \A h \in {"prime", "primeNoRedis"} : PrimeDone(p, h) =>
                      /\ "memory" \in Range(PrimeStores(config, h)) =>
                            memKV'[pr.key].present /\ memKV'[pr.key].val = pr.data
                      /\ "redis" \in Range(PrimeStores(config, h)) =>
                            redisKV'[pr.key].present
                            /\ SamePayload(redisKV'[pr.key].val, pr.data)
      ]_vars

\* both calls missed and fetched different payloads; the one still in flight
\* has written its payload to Redis and the one that resolved wrote over it
C15_Witness ==
    \E p, q \in Procs :
        /\ p # q /\ procs[p].op = "wrap" /\ procs[q].op = "wrap"
        /\ procs[p].key = procs[q].key
        /\ procs[p].read = "miss" /\ procs[q].read = "miss"
        /\ procs[p].fetches = 1 /\ procs[q].fetches = 1
        /\ procs[p].status = "resolved" /\ procs[p].data.meta = "m1"
        /\ procs[q].data.meta = "m2" /\ procs[q].registers = 1
        /\ procs[q].pend = {"primeNoRedis"}
        /\ redisKV[procs[p].key].val.meta = "m1"

\* the call follows a call of the same caller for the same query that found
\* the query uncached
SecondOfTwo(pr) ==
    IsGet(pr) /\ pr.prev.query = pr.query /\ pr.prev.read = "miss"

\* C16 as claimed: of two get/wrap calls for a query that was uncached at
\* the first, each invokes the fetch handler, twice in all
C16_TwiceFetchesTwice ==
    \A p \in Procs :
        LET pr == procs[p] IN
        (SecondOfTwo(pr) /\ pr.status = "resolved") =>
            pr.prev.fetches + pr.fetches = 2

\* C16 as amended: two calls that both read the cache before either has
\* written to it invoke the fetch handler once each; a call that reads
\* after the preceding call for the query has fetched and cached its result
\* is served from the cache, and the fetch handler has run once in all
C16_SecondCallHits ==
    /\ \A p, q \in Procs :
          (p # q /\ IsGet(procs[p]) /\ IsGet(procs[q]) /\ procs[p].key = procs[q].key
              /\ procs[p].read = "miss" /\ procs[q].read = "miss") =>
              procs[p].fetches + procs[q].fetches = 2
    /\ \A p \in Procs :
          LET pr == procs[p] IN
          (SecondOfTwo(pr) /\ pr.prev.status = "resolved" /\ pr.read \in {"hit", "miss"}) =>
              /\ pr.read = "hit"
              /\ pr.prev.fetches + pr.fetches = 1
              /\ pr.status = "resolved"

\* the second of two get calls for Q2 resolved from the cache
C16_Witness ==
    \E p \in Procs :
        /\ procs[p].op = "get" /\ procs[p].query = "Q2" /\ SecondOfTwo(procs[p])
        /\ procs[p].prev.fetches = 1 /\ procs[p].prev.status = "resolved"
        /\ procs[p].read = "hit" /\ procs[p].fetches = 0
        /\ procs[p].status = "resolved"

\* C17: a get/wrap call that cached its result through cacheQueryEntityKind
\* has put the cache key in the set of every kind of query.kinds, so that the
\* invalidation of any of them finds the key
C17_AllKindsRegistered ==
    \A p \in Procs :
        LET pr == procs[p] IN
        (IsGet(pr) /\ Fetched(pr) /\ pr.registers = 1 /\ pr.status = "resolved") =>
            \A k \in Range(QueryKinds(pr.query)) : pr.key \in redisSets[k]

\* C18: set/mset send an entry through cacheQueryEntityKind when there is a
\* Redis client and ttl.stores.redis.queries is 0, and otherwise through the
\* write of the cache manager, with no sadd for any entry
C18_SetRoutesLikeGet ==
    \A p \in Procs :
        LET pr == procs[p] IN
        (pr.op = "mset" /\ config.ttlQueries # -1) =>
            IF hasRedisClient(config) /\ config.ttlRedis = 0
            THEN /\ pr.registers = Len(pr.batch)
                 /\ \A i \in DOMAIN pr.batch : pr.batch[i].cmd.sadd # <<>>
            ELSE /\ pr.registers = 0 /\ pr.cacheSets = 1
                 /\ \A i \in DOMAIN pr.batch : pr.batch[i].cmd = NoCmd
                 /\ \A k \in Kinds : redisSets[k] = {}

\* C19: a get/wrap call that is served from the cache after the preceding
\* call for the query fetched and cached the result resolves with the payload
\* the fetch handler returned: the KEY of every entity is back and no
\* __dsKey__ is left
C19_HitReturnsFetchedPayload ==
    \A p \in Procs :
        LET pr == procs[p] IN
        (SecondOfTwo(pr) /\ pr.prev.status = "resolved" /\ pr.op = "wrap"
            /\ config.global /\ config.ttlQueries # -1
            /\ pr.read = "hit" /\ pr.status = "resolved") =>
            pr.result = Value(pr.prev.data)

\* the payload returned is the one stored, each record with its KEY taken
\* from __dsKey__ when the stored record has one, and with no __dsKey__
RestoredFrom(returned, stored) ==
    /\ returned.meta = stored.meta
    /\ Len(returned.entities) = Len(stored.entities)
    /\ \A i \in DOMAIN stored.entities :
          /\ returned.entities[i].name = stored.entities[i].name
          /\ returned.entities[i].dsKey = ""
          /\ returned.entities[i].KEY =
                IF stored.entities[i].dsKey # "" THEN stored.entities[i].dsKey
                ELSE stored.entities[i].KEY

\* C20: mget/get resolves with the payloads of the keys that are cached, in
\* the order asked, nothing for the keys that are not, and every record
\* returned has its KEY restored from __dsKey__
C20_MgetReturnsFound ==
    \A p \in Procs :
        LET pr == procs[p]
            slot(i) == CacheManagerGet(config, memKV, redisKV, pr.keys[i])
            found == {i \in DOMAIN pr.keys : slot(i).present}
            \* the position in the result of the key at index i
            rank(i) == Cardinality({j \in found : j <= i})
        IN (pr.op = "mget" /\ pr.status = "resolved") =>
            IF Len(pr.keys) = 1
            THEN IF found = {} THEN pr.result = Undefined
                 ELSE pr.result.kind = "value" /\ RestoredFrom(pr.result.val, slot(1).val)
            ELSE /\ pr.result.kind = "values"
                 /\ Len(pr.result.vals) = Cardinality(found)
                 /\ \A i \in found : RestoredFrom(pr.result.vals[rank(i)], slot(i).val)

\* of two queries asked the second alone is cached, in Redis, and its
\* payload comes back with the KEY of its record
C20_Witness ==
    \E p \in Procs :
        /\ procs[p].op = "mget" /\ procs[p].status = "resolved"
        /\ procs[p].keys = <<"gcq:Q1", "gcq:Q2">>
        /\ ~redisKV["gcq:Q1"].present /\ redisKV["gcq:Q2"].present
        /\ redisKV["gcq:Q2"].val.entities[1].dsKey = "k1"
        /\ Len(procs[p].result.vals) = 1
        /\ procs[p].result.vals[1].entities[1].KEY = "k1"

\* C21: del hands the cache keys of its queries, in order, to one cache.del;
\* that delete removes those keys and changes no set, and a key leaves a set
\* only when cleanQueriesEntityKind deletes the set
C21_DelLeavesSets ==
    [][ /\ \A p \in Procs, qs \in QueryLists :
              del(p, qs) =>
                  /\ procs'[p].delKeys = [i \in DOMAIN qs |-> queryToString(qs[i])]
                  /\ procs'[p].cacheDels = 1 /\ procs'[p].dels = 0
                  /\ procs'[p].smembers = 0 /\ procs'[p].registers = 0
        /\ \A p \in Procs :
              (procs[p].op = "del" /\ procs[p].pc = "cacheDel"
                  /\ procs'[p].status = "resolved") =>
                  /\ redisSets' = redisSets
                  /\ \A k \in RedisKeys :
                        redisKV'[k] = IF k \in Range(procs[p].delKeys) THEN Absent
                                      ELSE redisKV[k]
        /\ \A key \in QueryKeys, k \in Kinds :
              (key \in redisSets[k] /\ key \notin redisSets'[k]) =>
                  \E p \in Procs : IsClean(procs[p]) /\ procs[p].pc = "del"
                                    /\ k \in KindsOf(procs[p])
      ]_vars

\* both keys were deleted with one del, and the key registered before is
\* still a member of the set of its kind
C21_Witness ==
    \E p \in Procs :
        /\ procs[p].op = "del" /\ procs[p].status = "resolved"
        /\ procs[p].delKeys = <<"gcq:Q1", "gcq:Q2">>
        /\ ~redisKV["gcq:Q1"].present
        /\ "gcq:Q1" \in redisSets["KA"]

\* the call is joining the writes it started
Joining(pr) == pr.op \in {"wrap", "mset"} /\ pr.pc = "priming"

\* C22: a wrap or set/mset that started several writes resolves in the step
\* in which the last of them succeeds, with none of them failed; the failure
\* of any write rejects the caller with that error, and a rejected caller
\* stays rejected while the other writes settle
C22_JoinAll ==
    [][ \A p \in Procs :
          LET pr == procs[p]
          IN Joining(pr) =>
              /\ (pr.status = "pending" /\ procs'[p].status = "resolved") =>
                    /\ procs'[p].pend = {}
                    /\ Cardinality(pr.pend) = 1
                    /\ procs'[p].result = pr.ret
              /\ (pr.status = "pending" /\ pr.pend # {}
                      /\ procs'[p].pend # {} /\ procs'[p].pend # pr.pend) =>
                    procs'[p].status \in {"pending", "rejected"}
              /\ \A e \in Errors :
                    (\/ MultiExecFail(p, e)
                     \/ \E h \in {"prime", "primeNoRedis"} : PrimeFail(p, h, e)
                     \/ \E i \in {1, 2} : mset_MultiExecFail(p, i, e)
                     \/ \E i \in {1, 2} : mset_PrimeFail(p, i, e)) =>
                        /\ procs'[p].status = "rejected"
                        /\ pr.status = "pending" => procs'[p].result = Failure(e)
              /\ pr.status = "rejected" =>
                    procs'[p].status = "rejected" /\ procs'[p].result = pr.result
      ]_vars

\* a wrap with a Redis client and a memory store next to it has resolved:
\* the registration and the prime of the memory store have both been done
C22_Witness ==
    \E p \in Procs :
        LET pr == procs[p]
        IN /\ pr.op = "wrap" /\ pr.status = "resolved" /\ pr.read = "miss"
           /\ pr.registers = 1 /\ pr.primesNoRedis = 1 /\ pr.pend = {}
           /\ redisKV[pr.key].present /\ memKV[pr.key].present
           /\ pr.key \in redisSets[QueryKinds(pr.query)[1]]

\* the pairs (key, payload) a wrap after its fetch, or a set/mset, writes
WritesOf(pr) ==
    IF pr.op = "wrap" THEN <<[key |-> pr.key, data |-> pr.data]>>
    ELSE [i \in DOMAIN pr.batch |-> [key |-> pr.batch[i].key, data |-> pr.batch[i].data]]
IndexWrite(pr) ==
    \/ pr.op = "wrap" /\ Fetched(pr)
    \/ pr.op = "mset"

\* C23: with a Redis client, a write that is registered in the index is also
\* primed on cacheManagerNoRedis, once per pair and under the key of the
\* pair, when that manager exists; when it does not, no prime is started and
\* the memory store is never written
C23_SecondaryStorePrimed ==
    \A p \in Procs :
        LET pr == procs[p]
            w == WritesOf(pr)
        IN (IndexWrite(pr) /\ hasRedisClient(config)) =>
            /\ pr.registers = Len(w) /\ pr.primes = 0
            /\ IF config.topo = "mem+redis"
               THEN /\ pr.primesNoRedis = Len(w)
                    /\ pr.status = "resolved" =>
                          \A i \in DOMAIN w :
                              /\ memKV[w[i].key].present
                              /\ SamePayload(memKV[w[i].key].val, w[i].data)
                              /\ redisKV[w[i].key].present
               ELSE /\ pr.primesNoRedis = 0
                    /\ pr.pend \subseteq {"register", "register1", "register2"}
                    /\ \A k \in RedisKeys : ~memKV[k].present

\* mset of two pairs with a memory store next to Redis has resolved: both
\* payloads are in the memory store and in Redis under their keys
C23_Witness ==
    \E p \in Procs :
        LET pr == procs[p]
        IN /\ pr.op = "mset" /\ pr.status = "resolved" /\ Len(pr.batch) = 2
           /\ config.topo = "mem+redis" /\ pr.primesNoRedis = 2
           /\ \A i \in {1, 2} :
                 /\ memKV[pr.batch[i].key].present
                 /\ SamePayload(memKV[pr.batch[i].key].val, pr.batch[i].data)
                 /\ redisKV[pr.batch[i].key].present

\* C24: the TTL of a get/wrap call is the number ttl.queries when one store
\* is configured and the per-store resolver when several are (for wrap: when
\* ttl.queries is not -1, which comes first in getTTL); a call that resolved
\* after a miss has written each store with the value configured for that
\* store when the TTL is the resolver, with the number otherwise
C24_StoreOwnTTL ==
    \A p \in Procs :
        LET pr == procs[p]
            stores == StoresOf(config.topo)
            memWritten == pr.primesNoRedis > 0 \/ (pr.primes > 0 /\ "memory" \in Range(stores))
            \* the registration of the earlier get writes with no expiry,
            \* which it does only when the TTL of Redis is 0
            redWritten == \/ pr.registers > 0 /\ (pr.op = "wrap" \/ pr.ttl.fn)
                          \/ pr.primes > 0 /\ "redis" \in Range(stores)
            own(s) == IF pr.ttl.fn THEN StoreTTL(config, s) ELSE pr.ttl.n
        IN (IsGet(pr) /\ pr.opts.ttl = NoTTL) =>
            /\ Len(stores) = 1 => pr.ttl = NumTTL(config.ttlQueries)
            /\ (Len(stores) > 1 /\ (pr.op = "get" \/ config.ttlQueries # -1)) =>
                  pr.ttl = FnTTL
            /\ (pr.status = "resolved" /\ Fetched(pr)) =>
                  /\ memWritten => memKV[pr.key].present /\ memKV[pr.key].ttl = own("memory")
                  /\ redWritten => redisKV[pr.key].present /\ redisKV[pr.key].ttl = own("redis")

\* get with a memory and a Redis store has primed both after a miss: the
\* TTL is the resolver and the two stores hold the key with different TTLs
C24_Witness ==
    \E p \in Procs :
        LET pr == procs[p]
        IN /\ pr.op = "get" /\ pr.status = "resolved" /\ pr.primes = 1
           /\ config.topo = "mem+redis" /\ pr.ttl.fn
           /\ memKV[pr.key].present /\ memKV[pr.key].ttl = config.ttlMemory
           /\ redisKV[pr.key].present /\ redisKV[pr.key].ttl = config.ttlRedis
           /\ config.ttlMemory # config.ttlRedis

\* C25: a call given a TTL of its own uses that TTL, whatever is configured:
\* it is the TTL of the call, the call reads the cache and does not go
\* straight to the fetch handler, and what it has written when it resolved
\* is stored with that TTL
C25_PerCallTTLWins ==
    \A p \in Procs :
        LET pr == procs[p]
            w == WritesOf(pr)
        IN (pr.op \in {"get", "wrap", "mset"} /\ pr.opts.ttl # NoTTL) =>
            /\ pr.ttl = NumTTL(pr.opts.ttl)
            /\ pr.pc # "fetchDirect"
            /\ (pr.status = "resolved" /\ IndexWrite(pr)) =>
                  \A i \in DOMAIN w :
                      /\ memKV[w[i].key].present => memKV[w[i].key].ttl = pr.opts.ttl
                      /\ redisKV[w[i].key].present => redisKV[w[i].key].ttl = pr.opts.ttl

\* C26: a keys.wrap for several keys whose fetch failed with "not found" has
\* resolved with one value per key in the order of the keys: the cached
\* entity, with its key, at the position of a cached key and null at the
\* position of a key that is not cached; after any other failure of the
\* fetch the call is rejected with that failure
C26_NotFoundGivesNull ==
    \A p \in Procs :
        LET pr == procs[p]
            slot(i) == CacheManagerGet(config, memKV, redisKV, pr.keys[i])
        IN (pr.op = "keysWrap" /\ Len(pr.keys) > 1 /\ pr.pc = "done"
                /\ pr.ret.kind = "error") =>
            IF pr.ret.err = NotFound
            THEN /\ pr.status = "resolved" /\ pr.result.kind = "values"
                 /\ Len(pr.result.vals) = Len(pr.keys)
                 /\ \A i \in DOMAIN pr.keys :
                       pr.result.vals[i] =
                           IF slot(i).present THEN WithKEY(slot(i).val, pr.keys[i])
                           ELSE Null
            ELSE pr.status = "rejected" /\ pr.result = pr.ret

\* the second of two keys is cached and the fetch of the first one failed
\* with "not found": the call resolved with null and then the cached entity
C26_Witness ==
    \E p \in Procs :
        LET pr == procs[p]
        IN /\ pr.op = "keysWrap" /\ pr.status = "resolved"
           /\ pr.keys = <<"gck:K2", "gck:K1">> /\ pr.ret = Failure(NotFound)
           /\ pr.result.vals[1] = Null
           /\ Len(pr.result.vals[2].entities) = 1
           /\ pr.result.vals[2].entities[1].name = "John"
           /\ pr.result.vals[2].entities[1].KEY = "gck:K1"
           /\ ~CacheManagerGet(config, memKV, redisKV, "gck:K2").present

\* C27: a get/wrap that read the cache, missed and has resolved has no write
\* pending, its result is the payload its fetch handler returned, and the
\* cache manager holds that payload under the key of the query
C27_PrimedWhenResolved ==
    \A p \in Procs :
        LET pr == procs[p]
            r == CacheManagerGet(config, memKV, redisKV, pr.key)
        IN (IsGet(pr) /\ pr.read = "miss" /\ pr.status = "resolved") =>
            /\ pr.pend = {} /\ pr.pc = "done"
            /\ pr.fetches = 1 /\ pr.result = Value(pr.data)
            /\ pr.registers + pr.primes + pr.primesNoRedis > 0
            /\ r.present /\ SamePayload(r.val, pr.data)

\* get on a memory store has resolved after a miss and the memory store
\* holds the very payload that was fetched
C27_Witness ==
    \E p \in Procs :
        LET pr == procs[p]
        IN /\ pr.op = "get" /\ pr.read = "miss" /\ pr.status = "resolved"
           /\ config.topo = "mem" /\ pr.data \in Payloads
           /\ memKV[pr.key] = Entry(pr.data, config.ttlQueries)
           /\ pr.result = Value(pr.data)

\* the TTL a wrap or set/mset has to hand to cacheQueryEntityKind: its own
\* when it is a number, what the resolver gives for Redis otherwise
SuppliedTTL(pr) == IF pr.ttl.fn THEN config.ttlRedis ELSE pr.ttl.n
\* the payload of cmd was written with expiry t when t is positive and
\* with no expiry when it is 0
WrittenWith(cmd, t) ==
    /\ cmd.op = IF t > 0 THEN "setex" ELSE "set"
    /\ redisKV'[cmd.key].present
    /\ redisKV'[cmd.key].ttl = IF t > 0 THEN t ELSE 0

\* C28: the transaction of cacheQueryEntityKind writes the payload with the
\* TTL supplied as expiry when it is positive and with no expiry when it is
\* 0, and the TTL wrap and set/mset supply is their own number or, when it is
\* the per-store resolver, the value the resolver gives for Redis
C28_RegisterExpiry ==
    [][ \A p \in Procs :
          LET pr == procs[p]
          IN /\ (pr.op = "wrap" /\ MultiExec(p)) =>
                    /\ pr.cmd.ttl = SuppliedTTL(pr)
                    /\ WrittenWith(pr.cmd, SuppliedTTL(pr))
             /\ \A i \in {1, 2} :
                    (pr.op = "mset" /\ mset_MultiExec(p, i)) =>
                        /\ pr.batch[i].cmd.ttl = SuppliedTTL(pr)
                        /\ WrittenWith(pr.batch[i].cmd, SuppliedTTL(pr))
      ]_vars

\* wrap with a memory and a Redis store, TTL 4 for Redis: the key is in
\* Redis with expiry 4, the memory store holds it with its own TTL
C28_Witness ==
    \E p \in Procs :
        LET pr == procs[p]
        IN /\ pr.op = "wrap" /\ pr.status = "resolved" /\ pr.ttl.fn
           /\ pr.cmd.op = "setex" /\ pr.cmd.ttl = 4 /\ config.ttlRedis = 4
           /\ redisKV[pr.key].present /\ redisKV[pr.key].ttl = 4
           /\ memKV[pr.key].present /\ memKV[pr.key].ttl = config.ttlMemory

\* the payloads a call resolved with, as a list
PayloadList(r) == IF r.kind = "value" THEN <<r.val>> ELSE r.vals

\* C29: mset takes the last argument as its options when the number of
\* arguments is odd and the rest as pairs; it has one entry per pair, with
\* the key of the query of the pair and the payload of the pair, and one
\* registration per pair (one cache write of all pairs without a Redis
\* client); when it resolves, the result lists the payloads in the order
\* given and each key holds the payload of its pair
C29_MsetPairs ==
    [][ \A p \in Procs :
          /\ \A keysValues \in ArgLists(TTLBatches, TTLOptions) :
                LET len == Len(keysValues)
                    n == len \div 2
                    pr == procs'[p]
                IN mset_args(p, keysValues) =>
                    /\ pr.opts = IF len % 2 = 1 THEN keysValues[len].o ELSE NoOptions
                    /\ Len(pr.batch) = n
                    /\ \A i \in 1..n :
                          /\ pr.batch[i].key = queryToString(keysValues[2 * i - 1].q)
                          /\ pr.batch[i].data = keysValues[2 * i].d
                    /\ IF hasRedisClient(config)
                       THEN pr.registers = n /\ pr.cacheSets = 0
                       ELSE pr.registers = 0 /\ pr.cacheSets = 1
          /\ (procs[p].op = "mset" /\ procs[p].status = "pending"
                  /\ procs'[p].status = "resolved") =>
                LET pr == procs'[p]
                IN /\ PayloadList(pr.result) = [i \in DOMAIN pr.batch |-> pr.batch[i].data]
                   /\ \A i \in DOMAIN pr.batch :
                         LET r == CacheManagerGet(config, memKV', redisKV', pr.batch[i].key)
                         IN r.present /\ SamePayload(r.val, pr.batch[i].data)
      ]_vars

\* mset(q1, d1, q2, d2, {ttl: 9}) with different payloads has resolved with
\* the two payloads in that order, each stored under the key of its query
C29_Witness ==
    \E p \in Procs :
        LET pr == procs[p]
        IN /\ pr.op = "mset" /\ pr.status = "resolved" /\ pr.opts.ttl = 9
           /\ Len(pr.batch) = 2 /\ pr.batch[1].data # pr.batch[2].data
           /\ pr.batch[1].key = "gcq:Q1" /\ pr.batch[2].key = "gcq:Q2"
           /\ pr.result = Values(<<pr.batch[1].data, pr.batch[2].data>>)
           /\ SamePayload(CacheManagerGet(config, memKV, redisKV, "gcq:Q1").val,
                          pr.batch[1].data)
           /\ SamePayload(CacheManagerGet(config, memKV, redisKV, "gcq:Q2").val,
                          pr.batch[2].data)

\* C30: the registration of a wrap whose result was fetched before an
\* invalidation of a kind of its query was issued, and is written after that
\* invalidation has completed, is carried out all the same: the step that
\* settles it stores the fetched payload under the key and adds the key to
\* the set of the kind it registers under
C30_InvalidationDoesNotStopCaching ==
    [][ \A p \in Procs :
          LET pr == procs[p]
          IN (pr.op = "wrap" /\ pr.cleaned # {}
                  /\ "register" \in pr.pend /\ "register" \notin procs'[p].pend) =>
              /\ redisKV'[pr.key].present
              /\ redisKV'[pr.key].val =
                     JSONstringify([entities |-> marshalKeys(pr.data.entities),
                                    meta |-> pr.data.meta])
              /\ pr.key \in redisSets'[QueryKinds(pr.query)[1]]
              /\ procs'[p].status \in {"pending", "resolved"}
      ]_vars

\* a wrap has resolved after a miss; the kind of its query was invalidated
\* between its fetch and its write, and its key is in Redis with the payload
\* it fetched and in the set of that kind
C30_Witness ==
    \E p \in Procs :
        LET pr == procs[p]
            kind == QueryKinds(pr.query)[1]
        IN /\ pr.op = "wrap" /\ pr.read = "miss" /\ pr.status = "resolved"
           /\ kind \in pr.cleaned
           /\ redisKV[pr.key].present /\ SamePayload(redisKV[pr.key].val, pr.data)
           /\ pr.key \in redisSets[kind]

\* C31: a get/wrap whose cache read failed is rejected with the error of
\* the read, has not called the fetch handler and has written nothing
C31_ReadFailureRejects ==
    \A p \in Procs :
        LET pr == procs[p]
        IN (IsGet(pr) /\ pr.read = "error") =>
            /\ pr.status = "rejected" /\ pr.pc = "done"
            /\ pr.result.kind = "error" /\ pr.result.err \in Errors
            /\ pr.fetches = 0 /\ pr.reads = 1
            /\ NoCacheWrite(pr)

\* wrap on an empty cache was rejected by its read with E2
C31_Witness ==
    \E p \in Procs :
        LET pr == procs[p]
        IN /\ pr.op = "wrap" /\ pr.read = "error" /\ pr.status = "rejected"
           /\ pr.result = Failure("E2") /\ pr.fetches = 0
           /\ ~CacheManagerGet(config, memKV, redisKV, pr.key).present

\* C32: the steps of a get/wrap that ends in a hit, the call and the read
\* that finds the value, change no store and no set, and the call has
\* issued no prime, no registration and no delete when it resolves
C32_HitWritesNothing ==
    [][ \A p \in Procs :
          LET pr == procs'[p]
          IN (IsGet(pr) /\ pr # procs[p]
                  /\ (pr.pc = "read" \/ pr.read = "hit")) =>
              /\ memKV' = memKV /\ redisKV' = redisKV /\ redisSets' = redisSets
              /\ NoCacheWrite(pr) /\ pr.fetches = 0
              /\ pr.dels = 0 /\ pr.cacheDels = 0 /\ pr.smembers = 0
              /\ pr.read = "hit" => pr.status = "resolved" /\ pr.pc = "done"
      ]_vars

\* wrap found its key in Redis, registered in the set of its kind, and
\* resolved without a write
C32_Witness ==
    \E p \in Procs :
        LET pr == procs[p]
        IN /\ pr.op = "wrap" /\ pr.read = "hit" /\ pr.status = "resolved"
           /\ redisKV[pr.key].present
           /\ pr.key \in redisSets[QueryKinds(pr.query)[1]]
           /\ pr.registers = 0 /\ pr.primes = 0 /\ pr.primesNoRedis = 0

\* what the single-pair path, setWithKind, leaves for a payload: the value
\* in the memory store and the value in Redis
SinglePairMemory(queryData) == setWithKind(config, "Q1", queryData, FnTTL).primeVal
SinglePairRedis(queryData) == setWithKind(config, "Q1", queryData, FnTTL).cmd.val

\* C33: with a memory store next to Redis, a pair written by set/mset, alone
\* or with another pair, is held by the memory store and by Redis with the
\* values the single-pair path leaves for its payload
C33_SetAndMsetSameValue ==
    \A p \in Procs :
        LET pr == procs[p]
        IN (pr.op = "mset" /\ pr.status = "resolved" /\ config.topo = "mem+redis") =>
            \A i \in DOMAIN pr.batch :
                /\ memKV[pr.batch[i].key].val = SinglePairMemory(pr.batch[i].data)
                /\ redisKV[pr.batch[i].key].val = SinglePairRedis(pr.batch[i].data)
====
